---------------------------- MODULE Spec2Model ----------------------------
(***************************************************************************)
(* A model of the daily-analyst record reconstruction and analytics core:  *)
(* the text parsers of src/utils/validators.py, the aggregation step and   *)
(* the cached fetch of src/services/notion_service.py with the SQLite      *)
(* cache of src/utils/cache.py, the productivity score of                  *)
(* src/models/journal_entry.py and the analytics of                        *)
(* src/services/ai_analyzer.py.                                            *)
(*                                                                         *)
(* Texts are TLA+ strings handled character by character (Len, SubSeq,     *)
(* \o).  Dates are day numbers.  Hours are integers in hundredths of an    *)
(* hour where the code holds an unrounded float and in tenths where the    *)
(* code has rounded to one decimal; scores are integers in tenths.         *)
(***************************************************************************)
EXTENDS Integers, Sequences, FiniteSets, TLC

VARIABLES
    text,           \* the body text handed to a parser
    expect,         \* what was written into text: the label of its first marker
    parsed,         \* the parser's return value
    rec,            \* the DailyRecord whose productivity_score is read
    score,          \* the value of the productivity_score property
    tasks,          \* the list[TaskEntry] handed to _aggregate_daily
    by_date,        \* _aggregate_daily's local by_date, as the last call left it
    records,        \* the list[DailyRecord] the last call returned
    prev_records,   \* the list the call before it returned
    calls,          \* the number of _aggregate_daily calls made
    recs,           \* the list[DailyRecord] handed to the analytics functions
    streaks,        \* compute_streaks' return value
    kate,           \* kate_impact's return value
    formula_out,    \* formula's return value
    upstream,       \* the pages of the Notion database (unchanged)
    task_entries,   \* cache table task_entries, keyed by id
    daily_records,  \* cache table daily_records, keyed by entry_date
    last_sync,      \* cache_metadata['last_sync'].updated_at, or None
    now,            \* datetime.utcnow(), in seconds
    req,            \* the arguments of the last get_daily_records call
    result,         \* what that call returned
    served,         \* where it was served from: "cache" or "refresh"
    outcome,        \* how the last call of an analytics function ended: its name and value
    prev_outcome,   \* how the call before it ended
    _rate_limits,   \* main._rate_limits: for each user the times of the calls let through
    clock,          \* time.time(), in seconds
    checks,         \* every call of _check_rate_limit so far: user, time, limit, answer
    offset,         \* _run_polling's local offset
    updates,        \* what is left of the batch the for loop of _run_polling walks
    poll_pc,        \* where _run_polling stands: "get_updates" or "for"
    arrived,        \* update_id of the last update Telegram has received
    handed,         \* for each update_id, how often it was given to process_update
    returned,       \* for each update_id, how often get_updates returned it
    failed,         \* the update_ids whose process_update raised
    markers,        \* _last_briefing_date, _last_midday_date, ... of main
    bg_clock,       \* datetime.now(timezone.utc) in minutes since day 0, 00:00
    attempts        \* for each proactive message and key, the attempts started

parseVars == <<text, expect, parsed>>
scoreVars == <<rec, score>>
aggVars   == <<tasks, by_date, records, prev_records, calls>>
anaVars   == <<recs, streaks, kate, formula_out>>
svcVars   == <<upstream, task_entries, daily_records, last_sync, now, req, result, served>>
callVars  == <<outcome, prev_outcome>>
botVars   == <<_rate_limits, clock, checks, offset, updates, poll_pc, arrived, handed, returned,
               failed, markers, bg_clock, attempts>>
vars      == <<parseVars, scoreVars, aggVars, anaVars, svcVars, callVars, botVars>>

\* Python's None where a string or an enum member is expected, where a number is
\* expected (every such number of the program is >= 0) and where an object is expected
None     == "None"
NoNumber == -1
NoObject == [none |-> TRUE]
\* a result not computed yet
Unset == "Unset"
\* an operation not called yet: no return value
NotCalled == [kind |-> "not called"]

(***************************************************************************)
(* Generic helpers.                                                        *)
(***************************************************************************)
Min(a, b) == IF a <= b THEN a ELSE b
Max(a, b) == IF a >= b THEN a ELSE b

SeqToSet(s) == {s[i] : i \in 1..Len(s)}

RECURSIVE SumSeq(_)
SumSeq(s) == IF Len(s) = 0 THEN 0 ELSE s[1] + SumSeq(Tail(s))


\* round(num/den) to the nearest integer, ties to the even one: what Python's
\* round() and format() do on a value that is exact in binary (den > 0, num >= 0).
RoundHalfEven(num, den) ==
    LET q == num \div den
        r == num % den
    IN  IF 2 * r < den THEN q
        ELSE IF 2 * r > den THEN q + 1
        ELSE IF q % 2 = 0 THEN q ELSE q + 1

(***************************************************************************)
(* Characters and strings.                                                 *)
(***************************************************************************)
Lowers == "abcdefghijklmnopqrstuvwxyz"
Uppers == "ABCDEFGHIJKLMNOPQRSTUVWXYZ"
Digits == "0123456789"

Ch(s, i) == SubSeq(s, i, i)

IndexIn(c, alphabet) ==
    IF \E i \in 1..Len(alphabet) : Ch(alphabet, i) = c
    THEN CHOOSE i \in 1..Len(alphabet) : Ch(alphabet, i) = c
    ELSE 0

\* the case mappings and the digit values, as tables
UpTable    == [c \in {Ch(Lowers, i) : i \in 1..Len(Lowers)} |-> Ch(Uppers, IndexIn(c, Lowers))]
LowTable   == [c \in {Ch(Uppers, i) : i \in 1..Len(Uppers)} |-> Ch(Lowers, IndexIn(c, Uppers))]
DigitTable == [c \in {Ch(Digits, i) : i \in 1..Len(Digits)} |-> IndexIn(c, Digits) - 1]

UpChar(c)  == IF c \in DOMAIN UpTable THEN UpTable[c] ELSE c
LowChar(c) == IF c \in DOMAIN LowTable THEN LowTable[c] ELSE c
IsSpace(c) == c \in {" ", "\n", "\t"}
IsDigit(c) == c \in DOMAIN DigitTable
DigitVal(c) == DigitTable[c]

\* str.upper() / str.lower()
RECURSIVE Upper(_)
Upper(s) == IF Len(s) = 0 THEN "" ELSE UpChar(Ch(s, 1)) \o Upper(SubSeq(s, 2, Len(s)))
RECURSIVE Lower(_)
Lower(s) == IF Len(s) = 0 THEN "" ELSE LowChar(Ch(s, 1)) \o Lower(SubSeq(s, 2, Len(s)))

\* str.strip(): leading and trailing whitespace removed
RECURSIVE LStrip(_)
LStrip(s) == IF Len(s) > 0 /\ IsSpace(Ch(s, 1)) THEN LStrip(SubSeq(s, 2, Len(s))) ELSE s
RECURSIVE RStrip(_)
RStrip(s) == IF Len(s) > 0 /\ IsSpace(Ch(s, Len(s))) THEN RStrip(SubSeq(s, 1, Len(s) - 1)) ELSE s
Strip(s) == RStrip(LStrip(s))

\* `p in s`: a left-to-right scan for the first place where p starts
RECURSIVE FindFrom(_, _, _)
FindFrom(p, s, i) ==
    IF i + Len(p) - 1 > Len(s) THEN 0
    ELSE IF SubSeq(s, i, i + Len(p) - 1) = p THEN i
    ELSE FindFrom(p, s, i + 1)
StrIn(p, s) == FindFrom(p, s, 1) > 0

\* the index after the run of whitespace that starts at i (regex \s*)
RECURSIVE SkipSpace(_, _)
SkipSpace(s, i) == IF i <= Len(s) /\ IsSpace(Ch(s, i)) THEN SkipSpace(s, i + 1) ELSE i

\* the index after literal p at i, case-insensitively (re.IGNORECASE), or 0
MatchCI(s, i, p) ==
    IF i >= 1 /\ i + Len(p) - 1 <= Len(s) /\ Lower(SubSeq(s, i, i + Len(p) - 1)) = Lower(p)
    THEN i + Len(p) ELSE 0

\* re.sub(r"\s+", " ", s)
CollapseSpace_skipped(s) == s
RECURSIVE CollapseSpace(_)
CollapseSpace(s) ==
    IF Len(s) = 0 THEN ""
    ELSE IF IsSpace(Ch(s, 1))
         THEN " " \o CollapseSpace(SubSeq(s, SkipSpace(s, 1), Len(s)))
         ELSE Ch(s, 1) \o CollapseSpace(SubSeq(s, 2, Len(s)))

(***************************************************************************)
(* Enumerations of src/models/journal_entry.py.                            *)
(***************************************************************************)
DayRatingValues == {"perfect", "very good", "good", "normal", "bad", "very bad"}

RatingScore(r) ==
    CASE r = "perfect" -> 6 [] r = "very good" -> 5 [] r = "good" -> 4
      [] r = "normal" -> 3 [] r = "bad" -> 2 [] r = "very bad" -> 1

RatingIsGood(r) == RatingScore(r) >= 4

TestikValues == {"PLUS", "MINUS", "MINUS_KATE"}

(***************************************************************************)
(* parse_testik (validators.py).                                           *)
(***************************************************************************)
parse_testik_bare_minus_first(t) ==
    LET text_upper == Upper(t)
    IN  IF StrIn("MINUS TESTIK", text_upper) \/ StrIn("MINUS TEST", text_upper)
        THEN "MINUS"
        ELSE IF StrIn("MINUS TESTIK KATE", text_upper) \/ StrIn("MINUS TEST KATE", text_upper)
        THEN "MINUS_KATE"
        ELSE IF StrIn("PLUS TESTIK", text_upper) \/ StrIn("PLUS TEST", text_upper)
        THEN "PLUS"
        ELSE None

parse_testik(t) ==
    LET text_upper == Upper(t)
    IN  IF StrIn("MINUS TESTIK KATE", text_upper) \/ StrIn("MINUS TEST KATE", text_upper)
        THEN "MINUS_KATE"
        ELSE IF StrIn("MINUS TESTIK", text_upper) \/ StrIn("MINUS TEST", text_upper)
        THEN "MINUS"
        ELSE IF StrIn("PLUS TESTIK", text_upper) \/ StrIn("PLUS TEST", text_upper)
        THEN "PLUS"
        ELSE None

(***************************************************************************)
(* parse_day_rating (validators.py).                                       *)
(***************************************************************************)
\* The alternatives of the regex group, in the order the pattern lists them:
\* <<first word, second word or "">>; the two words are joined by \s+.
RatingAlternatives ==
    << <<"very", "good">>, <<"very", "bad">>, <<"perfect", "">>,
       <<"good", "">>, <<"normal", "">>, <<"bad", "">> >>

\* the index after alternative alt matched at j, or 0
MatchAlternative(s, j, alt) ==
    LET a == MatchCI(s, j, alt[1])
    IN  IF a = 0 THEN 0
        ELSE IF alt[2] = "" THEN a
        ELSE LET b == SkipSpace(s, a)
             IN  IF b = a THEN 0 ELSE MatchCI(s, b, alt[2])

\* the first alternative (in pattern order) that matches at j: <<from, to>>, or <<0, 0>>
RECURSIVE MatchGroup(_, _, _)
MatchGroup(s, j, k) ==
    IF k > Len(RatingAlternatives) THEN <<0, 0>>
    ELSE LET e == MatchAlternative(s, j, RatingAlternatives[k])
         IN  IF e > 0 THEN <<j, e - 1>> ELSE MatchGroup(s, j, k + 1)

\* MARK\s*:\s*(...) tried at i: the span of group 1, or <<0, 0>>
MatchMarkerAt(s, i) ==
    LET a == MatchCI(s, i, "MARK")
    IN  IF a = 0 THEN <<0, 0>>
        ELSE LET b == SkipSpace(s, a)
             IN  IF ~(b <= Len(s) /\ Ch(s, b) = ":") THEN <<0, 0>>
                 ELSE MatchGroup(s, SkipSpace(s, b + 1), 1)

\* re.search: the leftmost place where the pattern matches
RECURSIVE SearchMarker(_, _)
SearchMarker(s, i) ==
    IF i > Len(s) THEN <<0, 0>>
    ELSE LET g == MatchMarkerAt(s, i)
         IN  IF g[1] > 0 THEN g ELSE SearchMarker(s, i + 1)

parse_day_rating(t) ==
    LET g == SearchMarker(t, 1)
    IN  IF g[1] = 0 THEN None
        ELSE LET raw == CollapseSpace(Lower(Strip(SubSeq(t, g[1], g[2]))))
             IN  IF raw \in DayRatingValues THEN raw ELSE None

(***************************************************************************)
(* parse_sleep_info (validators.py).                                       *)
(***************************************************************************)
\* the index after literal p at i (case-sensitive), or 0; 0 stays 0
MatchLit(s, i, p) ==
    IF i >= 1 /\ i + Len(p) - 1 <= Len(s) /\ SubSeq(s, i, i + Len(p) - 1) = p
    THEN i + Len(p) ELSE 0

\* the index after \s+ at i, or 0; 0 stays 0
Space1(s, i) == IF i = 0 THEN 0 ELSE LET j == SkipSpace(s, i) IN IF j = i THEN 0 ELSE j

\* how many digits, at most n, start at i
RECURSIVE NDigits(_, _, _)
NDigits(s, i, n) ==
    IF n > 0 /\ i >= 1 /\ i <= Len(s) /\ IsDigit(Ch(s, i)) THEN 1 + NDigits(s, i + 1, n - 1) ELSE 0

\* int() of the digits s[i..j]
RECURSIVE IntOf(_, _, _)
IntOf(s, i, j) == IF j < i THEN 0 ELSE 10 * IntOf(s, i, j - 1) + DigitVal(Ch(s, j))

\* (\d{1,2})[:.](\d{2}) at d: how many digits group 1 takes (the regex tries the
\* longest first and backtracks), or 0
ClockDigits(s, d) ==
    LET n == IF d = 0 THEN 0 ELSE NDigits(s, d, 2)
        ok(k) == /\ k >= 1
                 /\ d + k <= Len(s)
                 /\ Ch(s, d + k) \in {":", "."}
                 /\ NDigits(s, d + k + 1, 2) = 2
    IN  IF ok(n) THEN n ELSE IF n = 2 /\ ok(1) THEN 1 ELSE 0

\* [Ss]leep\s+time\s+(\d{1,2})[:.:](\d{2}) tried at i: <<hours, minutes>> or <<>>
MatchSleepAt(s, i) ==
    LET d == Space1(s, MatchLit(s, Space1(s, MatchLit(s, i, "leep")), "time"))
        k == ClockDigits(s, d)
    IN  IF Ch(s, i - 1) \in {"S", "s"} /\ k > 0
        THEN <<IntOf(s, d, d + k - 1), IntOf(s, d + k + 1, d + k + 2)>>
        ELSE <<>>

RECURSIVE SearchSleep(_, _)
SearchSleep(s, i) ==
    IF i > Len(s) THEN <<>>
    ELSE LET m == MatchSleepAt(s, i + 1) IN IF m # <<>> THEN m ELSE SearchSleep(s, i + 1)

\* [Ww]oke\s+up\s+at\s+(\d{1,2}[:.]\d{2}) tried at i: the span of group 1, or <<>>
MatchWokeAt(s, i) ==
    LET d == Space1(s, MatchLit(s, Space1(s, MatchLit(s, Space1(s, MatchLit(s, i, "oke")), "up")), "at"))
        k == ClockDigits(s, d)
    IN  IF Ch(s, i - 1) \in {"W", "w"} /\ k > 0 THEN <<d, d + k + 2>> ELSE <<>>

RECURSIVE SearchWoke(_, _)
SearchWoke(s, i) ==
    IF i > Len(s) THEN <<>>
    ELSE LET m == MatchWokeAt(s, i + 1) IN IF m # <<>> THEN m ELSE SearchWoke(s, i + 1)

\* [Rr]ecovery\s+(\d{1,3}) tried at i: the number, or -1
MatchRecoveryAt(s, i) ==
    LET d == Space1(s, MatchLit(s, i, "ecovery"))
        k == IF d = 0 THEN 0 ELSE NDigits(s, d, 3)
    IN  IF Ch(s, i - 1) \in {"R", "r"} /\ k > 0 THEN IntOf(s, d, d + k - 1) ELSE -1

RECURSIVE SearchRecovery(_, _)
SearchRecovery(s, i) ==
    IF i > Len(s) THEN -1
    ELSE LET m == MatchRecoveryAt(s, i + 1) IN IF m >= 0 THEN m ELSE SearchRecovery(s, i + 1)

\* str.replace(".", ":")
RECURSIVE DotsToColons(_)
DotsToColons(s) ==
    IF Len(s) = 0 THEN ""
    ELSE (IF Ch(s, 1) = "." THEN ":" ELSE Ch(s, 1)) \o DotsToColons(SubSeq(s, 2, Len(s)))

\* str(n) for n >= 0
RECURSIVE IntStr(_)
IntStr(n) == IF n < 10 THEN Ch(Digits, n + 1) ELSE IntStr(n \div 10) \o Ch(Digits, (n % 10) + 1)

\* SleepInfo(): every field None
NoSleep == [woke_up_at |-> None, sleep_duration |-> None, sleep_hours |-> NoNumber, recovery |-> NoNumber]

\* sleep_hours is in hundredths of an hour: round(hours_part + mins_part / 60, 2)
parse_sleep_info(t) ==
    LET woke_match     == SearchWoke(t, 1)
        sleep_match    == SearchSleep(t, 1)
        recovery_match == SearchRecovery(t, 1)
    IN  [woke_up_at     |-> IF woke_match = <<>> THEN None
                            ELSE DotsToColons(SubSeq(t, woke_match[1], woke_match[2])),
         sleep_duration |-> IF sleep_match = <<>> THEN None
                            ELSE IntStr(sleep_match[1]) \o ":"
                                 \o (IF sleep_match[2] < 10 THEN "0" ELSE "") \o IntStr(sleep_match[2]),
         sleep_hours    |-> IF sleep_match = <<>> THEN NoNumber
                            ELSE RoundHalfEven((sleep_match[1] * 60 + sleep_match[2]) * 100, 60),
         recovery       |-> IF recovery_match < 0 THEN NoNumber ELSE recovery_match]

ParserChecks ==
    /\ parse_sleep_info("Woke up at 12:30. Sleep time 8:54. Recovery 81 by Apple Watch")
         = [woke_up_at |-> "12:30", sleep_duration |-> "8:54", sleep_hours |-> 890, recovery |-> 81]
    /\ parse_sleep_info("woke  up at 8.05\nsleep time 7.30") 
         = [woke_up_at |-> "8:05", sleep_duration |-> "7:30", sleep_hours |-> 750, recovery |-> NoNumber]
    /\ parse_sleep_info("Sleep time 123:45 sleeptime 7:00 SLEEP TIME 7:00") = NoSleep
    /\ parse_sleep_info("recovery 1234") .recovery = 123
    /\ parse_day_rating("MARK: very good") = "very good"
    /\ parse_day_rating("x\nmark :  Very \n BAD.") = "very bad"
    /\ parse_day_rating("MARK: verygood") = None
    /\ parse_day_rating("MARK: great. MARK:normal") = "normal"
    /\ parse_day_rating("MARK: goodness") = "good"
    /\ parse_day_rating("MARK good") = None
    /\ parse_testik("minus testik kate") = "MINUS_KATE"
    /\ parse_testik("Minus Testing") = "MINUS"
    /\ parse_testik("MINUS  TESTIK") = None
    /\ parse_testik("plus test") = "PLUS"
    /\ Strip(" \n MARK \t") = "MARK"
    /\ Upper("Mark's Week") = "MARK'S WEEK"
    /\ CollapseSpace("a \n b\tc") = "a b c"

(***************************************************************************)
(* DailyRecord and its productivity_score (journal_entry.py).              *)
(* total_hours is in tenths of an hour, sleep_hours in hundredths.         *)
(***************************************************************************)
\* DailyRecord(entry_date=d): every other field at its default
DefaultRecord(d) ==
    [entry_date |-> d, rating |-> None, testik |-> None, sleep |-> NoSleep,
     activities |-> <<>>, total_hours |-> 0, tasks_count |-> 0, tasks_completed |-> 0,
     had_workout |-> FALSE, had_university |-> FALSE, had_coding |-> FALSE,
     had_kate |-> FALSE, journal_text |-> "", is_weekly_summary |-> FALSE]

\* The five components, each in 1/120 of a point so that every quotient of the
\* code is an integer: 25 points are 3000, 20 are 2400, 15 are 1800, 5 are 600.
rating_score(r) == IF r.rating # None THEN RatingScore(r.rating) * 500 ELSE 1500

hours_score_uncapped(r) == r.total_hours * 30
hours_score(r) == Min(r.total_hours * 30, 3000)

sleep_score(r) ==
    IF r.sleep.sleep_hours # NoNumber
    THEN IF r.sleep.sleep_hours >= 400 THEN Min(r.sleep.sleep_hours * 3, 2400) ELSE 0
    ELSE 1200

activity_score(r) == Min(r.tasks_count * 300, 1800)

bonus(r) ==
    (IF r.had_workout THEN 600 ELSE 0)
    + (IF r.had_university THEN 600 ELSE 0)
    + (IF r.had_coding THEN 600 ELSE 0)

\* round(rating_score + hours_score + sleep_score + activity_score + bonus, 1), in tenths
productivity_score(r) ==
    RoundHalfEven(rating_score(r) + hours_score(r) + sleep_score(r)
                  + activity_score(r) + bonus(r), 12)

(***************************************************************************)
(* NotionService._aggregate_daily (notion_service.py).                     *)
(* A TaskEntry is [id, title, entry_date, tags, checkbox, hours,           *)
(* body_text]; hours is None or a number of hundredths of an hour.         *)
(***************************************************************************)
_WORKOUT_TAGS == {"GYM", "WORKOUT", "FOOTBALL", "TENNIS", "PADEL", "SPORT"}
_UNI_TAGS     == {"UNIVERSITY", "UNI"}
_CODING_TAGS  == {"CODING", "CODE", "PROGRAMMING"}
_KATE_TAGS    == {"KATE"}

WeeklyTitles == {"MARK'S WEAK", "MARK'S WEEK"}

\* by_date = defaultdict(list)
ByDateKept == by_date
ByDateNew == <<>>

\* by_date[task.entry_date].append(task)
AppendByDate(bd, task) ==
    LET d == task.entry_date
    IN  [x \in (DOMAIN bd) \cup {d} |->
            IF x = d THEN (IF d \in DOMAIN bd THEN Append(bd[d], task) ELSE <<task>>)
            ELSE bd[x]]

\* for task in tasks: by_date[task.entry_date].append(task)
RECURSIVE GroupByDate(_, _)
GroupByDate(bd, ts) ==
    IF Len(ts) = 0 THEN bd ELSE GroupByDate(AppendByDate(bd, ts[1]), Tail(ts))

\* the elements of a set of day numbers as a list, latest first / earliest first
RECURSIVE SortedDesc(_)
SortedDesc(S) ==
    IF S = {} THEN <<>>
    ELSE LET m == CHOOSE x \in S : \A y \in S : y <= x IN <<m>> \o SortedDesc(S \ {m})
RECURSIVE SortedAsc(_)
SortedAsc(S) ==
    IF S = {} THEN <<>>
    ELSE LET m == CHOOSE x \in S : \A y \in S : x <= y IN <<m>> \o SortedAsc(S \ {m})

\* sorted(by_date.items(), reverse=True): the days in the order the records are built
DayOrder_ascending(bd) == SortedAsc(DOMAIN bd)
DayOrder(bd) == SortedDesc(DOMAIN bd)

\* the locals of one day's loop, as set before its first row
DayLocals ==
    [mark_task |-> NoObject, is_weekly |-> FALSE, all_tags |-> <<>>, total_hours |-> 0,
     completed |-> 0, workout |-> FALSE, university |-> FALSE, coding |-> FALSE,
     kate |-> FALSE]

\* one pass of `for tag in t.tags`
ScanTag(acc, tag) ==
    LET tag_upper == Strip(Upper(tag))
    IN  [acc EXCEPT
            !.all_tags   = IF tag_upper \notin SeqToSet(@) THEN Append(@, tag) ELSE @,
            !.workout    = @ \/ tag_upper \in _WORKOUT_TAGS,
            !.university = @ \/ tag_upper \in _UNI_TAGS,
            !.coding     = @ \/ tag_upper \in _CODING_TAGS,
            !.kate       = @ \/ tag_upper \in _KATE_TAGS]

RECURSIVE ScanTags(_, _)
ScanTags(acc, tags) == IF Len(tags) = 0 THEN acc ELSE ScanTags(ScanTag(acc, tags[1]), Tail(tags))

\* one pass of `for t in day_tasks`
ScanTask_first_mark_wins(acc, t) ==
    LET title_upper == Strip(Upper(t.title))
        a1 == IF title_upper = "MARK"
              THEN (IF acc.mark_task = NoObject THEN [acc EXCEPT !.mark_task = t] ELSE acc)
              ELSE IF title_upper \in WeeklyTitles
                   THEN [acc EXCEPT !.is_weekly = TRUE,
                                    !.mark_task = IF @ = NoObject THEN t ELSE @]
                   ELSE acc
        a2 == ScanTags(a1, t.tags)
    IN  [a2 EXCEPT
            !.workout     = @ \/ title_upper \in _WORKOUT_TAGS,
            !.university  = @ \/ title_upper \in _UNI_TAGS,
            !.coding      = @ \/ title_upper \in _CODING_TAGS,
            !.kate        = @ \/ title_upper \in _KATE_TAGS,
            !.total_hours = IF t.hours # NoNumber /\ t.hours # 0 THEN @ + t.hours ELSE @,
            !.completed   = IF t.checkbox THEN @ + 1 ELSE @]

ScanTask_flags_assigned(acc, t) ==
    LET title_upper == Strip(Upper(t.title))
        a1 == IF title_upper = "MARK" THEN [acc EXCEPT !.mark_task = t]
              ELSE IF title_upper \in WeeklyTitles
                   THEN [acc EXCEPT !.is_weekly = TRUE, !.mark_task = t]
                   ELSE acc
        a2 == ScanTags(a1, t.tags)
    IN  [a2 EXCEPT
            !.workout     = title_upper \in _WORKOUT_TAGS,
            !.university  = title_upper \in _UNI_TAGS,
            !.coding      = title_upper \in _CODING_TAGS,
            !.kate        = title_upper \in _KATE_TAGS,
            !.total_hours = IF t.hours # NoNumber /\ t.hours # 0 THEN @ + t.hours ELSE @,
            !.completed   = IF t.checkbox THEN @ + 1 ELSE @]

ScanTask_mark_clears_weekly(acc, t) ==
    LET title_upper == Strip(Upper(t.title))
        a1 == IF title_upper = "MARK" THEN [acc EXCEPT !.is_weekly = FALSE, !.mark_task = t]
              ELSE IF title_upper \in WeeklyTitles
                   THEN [acc EXCEPT !.is_weekly = TRUE, !.mark_task = t]
                   ELSE acc
        a2 == ScanTags(a1, t.tags)
    IN  [a2 EXCEPT
            !.workout     = @ \/ title_upper \in _WORKOUT_TAGS,
            !.university  = @ \/ title_upper \in _UNI_TAGS,
            !.coding      = @ \/ title_upper \in _CODING_TAGS,
            !.kate        = @ \/ title_upper \in _KATE_TAGS,
            !.total_hours = IF t.hours # NoNumber /\ t.hours # 0 THEN @ + t.hours ELSE @,
            !.completed   = IF t.checkbox THEN @ + 1 ELSE @]

ScanTask_counts_every_row(acc, t) ==
    LET title_upper == Strip(Upper(t.title))
        a1 == IF title_upper = "MARK" THEN [acc EXCEPT !.mark_task = t]
              ELSE IF title_upper \in WeeklyTitles
                   THEN [acc EXCEPT !.is_weekly = TRUE, !.mark_task = t]
                   ELSE acc
        a2 == ScanTags(a1, t.tags)
    IN  [a2 EXCEPT
            !.workout     = @ \/ title_upper \in _WORKOUT_TAGS,
            !.university  = @ \/ title_upper \in _UNI_TAGS,
            !.coding      = @ \/ title_upper \in _CODING_TAGS,
            !.kate        = @ \/ title_upper \in _KATE_TAGS,
            !.total_hours = IF t.hours # NoNumber /\ t.hours # 0 THEN @ + t.hours ELSE @,
            !.completed   = @ + 1]

ScanTask(acc, t) ==
    LET title_upper == Strip(Upper(t.title))
        a1 == IF title_upper = "MARK" THEN [acc EXCEPT !.mark_task = t]
              ELSE IF title_upper \in WeeklyTitles
                   THEN [acc EXCEPT !.is_weekly = TRUE, !.mark_task = t]
                   ELSE acc
        a2 == ScanTags(a1, t.tags)
    IN  [a2 EXCEPT
            !.workout     = @ \/ title_upper \in _WORKOUT_TAGS,
            !.university  = @ \/ title_upper \in _UNI_TAGS,
            !.coding      = @ \/ title_upper \in _CODING_TAGS,
            !.kate        = @ \/ title_upper \in _KATE_TAGS,
            !.total_hours = IF t.hours # NoNumber /\ t.hours # 0 THEN @ + t.hours ELSE @,
            !.completed   = IF t.checkbox THEN @ + 1 ELSE @]

RECURSIVE ScanDay(_, _)
ScanDay(acc, day_tasks) ==
    IF Len(day_tasks) = 0 THEN acc ELSE ScanDay(ScanTask(acc, day_tasks[1]), Tail(day_tasks))

\* the DailyRecord built for one day
BuildRecord(day, day_tasks) ==
    LET acc  == ScanDay(DayLocals, day_tasks)
        use  == acc.mark_task # NoObject /\ acc.mark_task.body_text # ""
        body == IF use THEN acc.mark_task.body_text ELSE ""
    IN  [entry_date        |-> day,
         rating            |-> IF use THEN parse_day_rating(body) ELSE None,
         testik            |-> IF use THEN parse_testik(body) ELSE None,
         sleep             |-> IF use THEN parse_sleep_info(body) ELSE NoSleep,
         activities        |-> acc.all_tags,
         total_hours       |-> RoundHalfEven(acc.total_hours, 10),
         tasks_count       |-> Len(day_tasks),
         tasks_completed   |-> acc.completed,
         had_workout       |-> acc.workout,
         had_university    |-> acc.university,
         had_coding        |-> acc.coding,
         had_kate          |-> acc.kate,
         journal_text      |-> body,
         is_weekly_summary |-> acc.is_weekly]

\* for day, day_tasks in sorted(by_date.items(), reverse=True): records.append(...)
RecordsOf_markedOnly(bd) ==
    LET order == SelectSeq(DayOrder(bd), LAMBDA d : ScanDay(DayLocals, bd[d]).mark_task # NoObject)
    IN  [i \in 1..Len(order) |-> BuildRecord(order[i], bd[order[i]])]
RecordsOf(bd) ==
    LET order == DayOrder(bd)
    IN  [i \in 1..Len(order) |-> BuildRecord(order[i], bd[order[i]])]

\* _aggregate_daily(tasks) as a function of its argument
AggregateDaily(ts) == RecordsOf(GroupByDate(<<>>, ts))

(***************************************************************************)
(* AIAnalyzer.compute_streaks (ai_analyzer.py).                            *)
(***************************************************************************)
\* [r for r in records if not r.is_weekly_summary]
NonWeekly(rs) == SelectSeq(rs, LAMBDA r : ~r.is_weekly_summary)

\* sorted(by_date.keys()) and its reverse
dates_asc(days)  == SortedAsc({days[i].entry_date : i \in 1..Len(days)})
dates_desc(days) == SortedDesc({days[i].entry_date : i \in 1..Len(days)})

\* latest = dates_desc[0]
latest(days) == dates_desc(days)[1]

\* current_streak: the loop over dates_desc, count so far in `count`
RECURSIVE current_streak_loop(_, _, _)
current_streak_loop(matches, ds, count) ==
    IF Len(ds) = 0 THEN count
    ELSE IF ds[1] \in matches THEN current_streak_loop(matches, Tail(ds), count + 1)
    ELSE count
current_streak(matches, days) == current_streak_loop(matches, dates_desc(days), 0)

\* record_streak: the loop over dates_asc, then max(best, run)
RECURSIVE record_streak_loop(_, _, _, _)
record_streak_loop(matches, ds, best, run) ==
    IF Len(ds) = 0 THEN [best |-> best, run |-> run]
    ELSE IF ds[1] \in matches THEN record_streak_loop(matches, Tail(ds), best, run + 1)
    ELSE record_streak_loop(matches, Tail(ds), Max(best, run), 0)
record_streak_closed_runs_only(matches, days) ==
    record_streak_loop(matches, dates_asc(days), 0, 0).best
record_streak(matches, days) ==
    LET end == record_streak_loop(matches, dates_asc(days), 0, 0)
    IN  Max(end.best, end.run)

\* the five sets of matching dates
plus_dates(days) == {days[i].entry_date : i \in {j \in 1..Len(days) : days[j].testik = "PLUS"}}
gym_dates(days)  == {days[i].entry_date : i \in {j \in 1..Len(days) : days[j].had_workout}}
work_dates(days) ==
    {days[i].entry_date : i \in {j \in 1..Len(days) :
        \/ Len(SelectSeq(days[j].activities,
                         LAMBDA a : Upper(a) \notin WeeklyTitles \cup {"MARK"})) >= 2
        \/ days[j].total_hours >= 10}}
good_rating_dates(days) ==
    {days[i].entry_date : i \in {j \in 1..Len(days) :
        days[j].rating # None /\ RatingIsGood(days[j].rating)}}
sleep_ok_dates(days) ==
    {days[i].entry_date : i \in {j \in 1..Len(days) :
        days[j].sleep.sleep_hours # NoNumber /\ days[j].sleep.sleep_hours >= 700}}

StreakInfo(name, matches, days) ==
    [name      |-> name,
     current   |-> current_streak(matches, days),
     record    |-> record_streak(matches, days),
     last_date |-> IF latest(days) \in matches THEN latest(days) ELSE NoNumber]

\* the list compute_streaks returns (the last two names are "rating >= good" and
\* "sleep >= 7h" in the program's language)
compute_streaks(rs) ==
    LET days == NonWeekly(rs)
    IN  IF Len(days) = 0 THEN <<>>
        ELSE << StreakInfo("TESTIK PLUS", plus_dates(days), days),
                StreakInfo("GYM", gym_dates(days), days),
                StreakInfo("WORK", work_dates(days), days),
                StreakInfo("RATING >= good", good_rating_dates(days), days),
                StreakInfo("SLEEP >= 7h", sleep_ok_dates(days), days) >>

(***************************************************************************)
(* AIAnalyzer._records_to_summary, kate_impact and formula (ai_analyzer.py).*)
(* A reply is [kind |-> "placeholder"], [kind |-> "raises"] or, when the   *)
(* model was asked, [kind |-> "gpt", ...] with the parts of the prompt.    *)
(* Every date is within the last year, so the summary has no archive part. *)
(***************************************************************************)
JOURNAL_TRUNCATE_RECENT == 300

\* sorted(records, key=lambda x: x.entry_date); the sort is stable
RECURSIVE SortByDate(_)
SortByDate(rs) ==
    IF Len(rs) = 0 THEN <<>>
    ELSE LET m == SortedAsc({rs[i].entry_date : i \in 1..Len(rs)})[1]
         IN  SelectSeq(rs, LAMBDA r : r.entry_date = m)
             \o SortByDate(SelectSeq(rs, LAMBDA r : r.entry_date # m))

\* s[:n]
Take(s, n) == SubSeq(s, 1, Min(Len(s), n))

\* one line of the detailed part
SummaryLine(r) ==
    [entry_date |-> r.entry_date,
     rating     |-> IF r.rating # None THEN r.rating ELSE "N/A",
     hours      |-> r.total_hours,
     sleep      |-> IF r.sleep.sleep_hours # NoNumber /\ r.sleep.sleep_hours # 0
                    THEN r.sleep.sleep_hours ELSE NoNumber,
     testik     |-> IF r.testik # None THEN r.testik ELSE "N/A",
     tasks      |-> r.tasks_count,
     activities |-> Take(r.activities, 10),
     score      |-> productivity_score(r),
     journal    |-> IF r.journal_text = "" THEN ""
                    ELSE Take(Strip(r.journal_text), JOURNAL_TRUNCATE_RECENT)
                         \o (IF Len(r.journal_text) > JOURNAL_TRUNCATE_RECENT THEN "..." ELSE "")]

\* the text handed to the model: <<>> stands for the "no data" text
_records_to_summary(rs) ==
    LET daily_recs == NonWeekly(SortByDate(rs))
    IN  [i \in 1..Len(daily_recs) |-> SummaryLine(daily_recs[i])]

\* statistics.mean of a list of numbers in units of 1/scale, as `:.1f` prints it (tenths)
MeanTenths(xs, scale) == RoundHalfEven(SumSeq(xs) * 10, Len(xs) * scale)

ScoresOf(rs)  == [i \in 1..Len(rs) |-> productivity_score(rs[i])]
RatingsOf(rs) ==
    LET rated == SelectSeq(rs, LAMBDA r : r.rating # None)
    IN  [i \in 1..Len(rated) |-> RatingScore(rated[i].rating)]

\* the record min(next_days, key=entry_date) picks for r, as a list of 0 or 1 records
NextDay(rs, r) ==
    LET next_days == SelectSeq(rs, LAMBDA x : x.entry_date > r.entry_date /\ ~x.is_weekly_summary)
    IN  IF Len(next_days) = 0 THEN <<>> ELSE <<SortByDate(next_days)[1]>>

RECURSIVE avg_next(_, _)
avg_next(rs, mk_days) ==
    IF Len(mk_days) = 0 THEN <<>>
    ELSE ScoresOf(NextDay(rs, mk_days[1])) \o avg_next(rs, Tail(mk_days))

kate_impact_mk_days(rs) == SelectSeq(rs, LAMBDA r : r.testik = "MINUS_KATE")

kate_impact(rs) ==
    LET kate_days    == SelectSeq(rs, LAMBDA r : r.had_kate /\ ~r.is_weekly_summary)
        no_kate_days == SelectSeq(rs, LAMBDA r : ~r.had_kate /\ ~r.is_weekly_summary)
        part(name, ds) ==
            IF Len(ds) = 0 THEN <<>>
            ELSE << [part |-> name, days |-> Len(ds), avg_score |-> MeanTenths(ScoresOf(ds), 10),
                     avg_rating |-> MeanTenths(RatingsOf(ds), 1)] >>
        nexts == avg_next(rs, kate_impact_mk_days(rs))
        after == IF Len(nexts) = 0 THEN <<>>
                 ELSE << [part |-> "after MINUS_KATE", days |-> Len(nexts),
                          avg_score |-> MeanTenths(nexts, 10), avg_rating |-> NoNumber] >>
    IN  IF Len(rs) = 0 THEN [kind |-> "placeholder"]
        ELSE IF \/ Len(kate_days) > 0 /\ Len(RatingsOf(kate_days)) = 0
                \/ Len(no_kate_days) > 0 /\ Len(RatingsOf(no_kate_days)) = 0
        THEN [kind |-> "raises"]
        ELSE [kind |-> "gpt",
              stats_parts |-> part("Kate", kate_days) \o part("no Kate", no_kate_days) \o after,
              summary |-> _records_to_summary(rs)]

formula(rs) ==
    IF Len(rs) < 7 THEN [kind |-> "placeholder"]
    ELSE [kind |-> "gpt", stats_parts |-> <<>>, summary |-> _records_to_summary(rs)]

(***************************************************************************)
(* AIAnalyzer.predict_burnout (ai_analyzer.py).  A factor is named by the  *)
(* branch that appended it; the texts carry the same numbers.              *)
(***************************************************************************)
\* sorted(..., key=lambda r: r.entry_date, reverse=True)
RECURSIVE SortByDateDesc(_)
SortByDateDesc(rs) ==
    IF Len(rs) = 0 THEN <<>>
    ELSE LET m == SortedDesc({rs[i].entry_date : i \in 1..Len(rs)})[1]
         IN  SelectSeq(rs, LAMBDA r : r.entry_date = m)
             \o SortByDateDesc(SelectSeq(rs, LAMBDA r : r.entry_date # m))

\* recent = sorted([r for r in records if not r.is_weekly_summary], ...)[:14]
burnout_recent_unfiltered(rs) == Take(SortByDateDesc(rs), 14)
burnout_recent(rs) == Take(SortByDateDesc(NonWeekly(rs)), 14)

\* the leading run of MINUS / MINUS_KATE days
RECURSIVE minus_streak(_)
minus_streak(last7) ==
    IF Len(last7) > 0 /\ last7[1].testik \in {"MINUS", "MINUS_KATE"}
    THEN 1 + minus_streak(Tail(last7)) ELSE 0

\* [r.sleep.sleep_hours for r in last7 if r.sleep.sleep_hours], in hundredths
burnout_sleep_vals(last7) ==
    LET known == SelectSeq(last7, LAMBDA r : r.sleep.sleep_hours # NoNumber /\ r.sleep.sleep_hours # 0)
    IN  [i \in 1..Len(known) |-> known[i].sleep.sleep_hours]

\* the branch each of the six tests takes: a factor name, or "" for none
minus_factor(last7) ==
    IF minus_streak(last7) >= 3 THEN "minus streak >= 3"
    ELSE IF minus_streak(last7) >= 2 THEN "minus streak >= 2" ELSE ""
sleep_factor(last7) ==
    LET sleep_vals == burnout_sleep_vals(last7)
    IN  IF Len(sleep_vals) = 0 THEN ""
        ELSE IF SumSeq(sleep_vals) < 600 * Len(sleep_vals) THEN "avg sleep < 6"
        ELSE IF SumSeq(sleep_vals) < 700 * Len(sleep_vals) THEN "avg sleep < 7" ELSE ""
rating_factor(last7) ==
    LET ratings == RatingsOf(last7)
    IN  IF Len(ratings) >= 3 /\ SumSeq(ratings) < 3 * Len(ratings) THEN "avg rating < 3" ELSE ""
hours_factor(last7) ==
    IF SumSeq([i \in 1..Len(last7) |-> last7[i].total_hours]) > 100 * Len(last7)
    THEN "avg hours > 10" ELSE ""
workout_factor(last7) ==
    IF Len(SelectSeq(last7, LAMBDA r : ~r.had_workout)) >= 5 THEN "no workout >= 5" ELSE ""
tasks_factor(last7) ==
    IF SumSeq([i \in 1..Len(last7) |-> last7[i].tasks_count]) < 2 * Len(last7)
    THEN "avg tasks < 2" ELSE ""

\* risk after each test, from the risk before it
risk_after_minus(risk, last7) ==
    IF minus_factor(last7) = "minus streak >= 3" THEN risk + 30
    ELSE IF minus_factor(last7) = "minus streak >= 2" THEN risk + 15 ELSE risk
risk_after_sleep(risk, last7) ==
    IF sleep_factor(last7) = "avg sleep < 6" THEN risk + 25
    ELSE IF sleep_factor(last7) = "avg sleep < 7" THEN risk + 10 ELSE risk
risk_after_rating_assigned(risk, last7) == IF rating_factor(last7) # "" THEN 20 ELSE risk
risk_after_rating(risk, last7) == IF rating_factor(last7) # "" THEN risk + 20 ELSE risk
risk_after_hours(risk, last7) == IF hours_factor(last7) # "" THEN risk + 15 ELSE risk
risk_after_workout(risk, last7) == IF workout_factor(last7) # "" THEN risk + 10 ELSE risk
risk_after_tasks(risk, last7) == IF tasks_factor(last7) # "" THEN risk + 10 ELSE risk

\* risk = min(risk, 100)
burnout_cap_missing(risk) == risk
burnout_cap(risk) == Min(risk, 100)

burnout_level(risk) ==
    IF risk >= 70 THEN "critical" ELSE IF risk >= 45 THEN "high"
    ELSE IF risk >= 20 THEN "medium" ELSE "low"

burnout_factors(last7) ==
    SelectSeq(<<minus_factor(last7), sleep_factor(last7), rating_factor(last7),
                hours_factor(last7), workout_factor(last7), tasks_factor(last7)>>,
              LAMBDA f : f # "")

\* last7 = recent[:7]
burnout_last7_whole(recent) == recent
burnout_last7(recent) == Take(recent, 7)

predict_burnout(rs) ==
    LET recent == burnout_recent(rs)
        last7  == burnout_last7(recent)
        risk   == burnout_cap(
                    risk_after_tasks(
                      risk_after_workout(
                        risk_after_hours(
                          risk_after_rating(
                            risk_after_sleep(
                              risk_after_minus(0, last7), last7), last7), last7), last7), last7))
    IN  IF Len(recent) < 3
        THEN [risk_level |-> "unknown", risk_score |-> 0, factors |-> <<"insufficient data">>,
              recommendation |-> [kind |-> "placeholder"]]
        ELSE [risk_level |-> burnout_level(risk), risk_score |-> risk,
              factors |-> IF Len(burnout_factors(last7)) > 0 THEN burnout_factors(last7)
                          ELSE <<"no critical factors">>,
              recommendation |-> [kind |-> "gpt", summary |-> _records_to_summary(last7)]]

(***************************************************************************)
(* parse_goal_arg (validators.py) and AIAnalyzer.compute_goal_progress     *)
(* with _goal_activity_matches (ai_analyzer.py).                           *)
(***************************************************************************)
\* str.split(): the words between runs of whitespace
RECURSIVE Words(_)
Words(s) ==
    LET t == LStrip(s)
        RECURSIVE WordEnd(_)
        WordEnd(i) == IF i <= Len(t) /\ ~IsSpace(Ch(t, i)) THEN WordEnd(i + 1) ELSE i
    IN  IF Len(t) = 0 THEN <<>>
        ELSE <<SubSeq(t, 1, WordEnd(1) - 1)>> \o Words(SubSeq(t, WordEnd(1), Len(t)))

\* int(s) for a word s: an optional sign and digits; [ok |-> FALSE] is ValueError
IntOfWord(s) ==
    LET signed == Len(s) > 0 /\ Ch(s, 1) \in {"-", "+"}
        digits == IF signed THEN SubSeq(s, 2, Len(s)) ELSE s
    IN  IF Len(digits) > 0 /\ \A i \in 1..Len(digits) : IsDigit(Ch(digits, i))
        THEN [ok |-> TRUE,
              value |-> IF signed /\ Ch(s, 1) = "-" THEN 0 - IntOf(digits, 1, Len(digits))
                        ELSE IntOf(digits, 1, Len(digits))]
        ELSE [ok |-> FALSE, value |-> 0]

\* parse_goal_arg: (activity, target_count, period), or ValueError
parse_goal_arg(t) ==
    LET parts      == Words(t)
        target_str == parts[2]
        slash      == FindFrom("/", target_str, 1)
        count_str  == IF slash > 0 THEN SubSeq(target_str, 1, slash - 1) ELSE target_str
        period     == IF slash > 0 THEN SubSeq(target_str, slash + 1, Len(target_str)) ELSE "week"
        count      == IntOfWord(count_str)
    IN  IF Len(parts) < 2 THEN [kind |-> "raises", error |-> "ValueError"]
        ELSE IF ~count.ok THEN [kind |-> "raises", error |-> "ValueError"]
        ELSE IF period \notin {"week", "month"} THEN [kind |-> "raises", error |-> "ValueError"]
        ELSE [kind |-> "returned", fn |-> "parse_goal_arg",
              value |-> [target_activity |-> Upper(parts[1]), target_count |-> count.value,
                         period |-> period]]

_goal_activity_matches(record, activity) ==
    LET activity_upper == Upper(activity)
    IN  IF activity_upper \in {"GYM", "WORKOUT"} THEN record.had_workout
        ELSE IF activity_upper = "CODING" THEN record.had_coding
        ELSE IF activity_upper = "KATE" THEN record.had_kate
        ELSE IF activity_upper = "UNIVERSITY" THEN record.had_university
        ELSE IF activity_upper \in {"TESTIK_PLUS", "PLUS"} THEN record.testik = "PLUS"
        ELSE activity \in SeqToSet(record.activities)

\* round(num / den, 0) for an integer num >= 0 and den # 0, ties to even
RoundQuotient(num, den) ==
    IF den > 0 THEN RoundHalfEven(num, den) ELSE 0 - RoundHalfEven(num, 0 - den)

\* the GoalProgress of goal g; percentage is in tenths of a percent
goal_progress(g, days) ==
    LET today   == days[1].entry_date
        start   == IF g.period = "week" THEN today - 6 ELSE today - 29
        current == Len(SelectSeq(days, LAMBDA r : r.entry_date >= start
                                                  /\ _goal_activity_matches(r, g.target_activity)))
        target  == g.target_count
        pct     == IF target # 0 THEN RoundQuotient(current * 1000, target) ELSE 0
    IN  [goal |-> g, current |-> current, target |-> target, percentage |-> Min(pct, 1000)]

compute_goal_progress(goals, rs) ==
    LET days == SortByDateDesc(NonWeekly(rs))
    IN  IF Len(days) = 0
        THEN [k \in 1..Len(goals) |->
                 [goal |-> goals[k], current |-> 0, target |-> goals[k].target_count,
                  percentage |-> 0]]
        ELSE [k \in 1..Len(goals) |-> goal_progress(goals[k], days)]

(***************************************************************************)
(* AIAnalyzer.compute_life_score (ai_analyzer.py).  The six dimension      *)
(* values are quotients; they are kept exactly as integers in units of     *)
(* 1/life_den(window) point, reported scores are in tenths of a point.     *)
(***************************************************************************)
RECURSIVE Gcd(_, _)
Gcd(a, b) == IF b = 0 THEN a ELSE Gcd(b, a % b)

Lcm(a, b) == (a \div Gcd(a, b)) * b

life_days(rs) == SortByDateDesc(NonWeekly(rs))
life_recent(days) == Take(days, 14)
life_prev(days) == IF Len(days) >= 28 THEN SubSeq(days, 15, 28) ELSE <<>>

life_sleep_vals(w) ==
    LET slept == SelectSeq(w, LAMBDA r : r.sleep.sleep_hours # NoNumber /\ r.sleep.sleep_hours # 0)
    IN  [i \in 1..Len(slept) |-> slept[i].sleep.sleep_hours]

life_kate_days(w) == SelectSeq(w, LAMBDA r : r.had_kate)

\* the common denominator of the six quotients of a non-empty window w
life_den(w) ==
    30 * Lcm(Lcm(Len(w), Max(Len(life_sleep_vals(w)), 1)),
             Lcm(Max(Len(RatingsOf(life_kate_days(w))), 1), Max(Len(RatingsOf(w)), 1)))

life_prod(w) == MeanTenths(ScoresOf(w), 10)

life_sleep_sc_unfloored(w) ==
    LET vals == life_sleep_vals(w)
        D    == life_den(w)
        dev  == SumSeq(vals) - 750 * Len(vals)
        x    == (IF dev < 0 THEN 0 - dev ELSE dev) * (D \div (5 * Len(vals)))
    IN  IF Len(vals) > 0 THEN Min(100 * D, 100 * D - x) ELSE 50 * D

life_sleep_sc(w) ==
    LET vals == life_sleep_vals(w)
        D    == life_den(w)
        dev  == SumSeq(vals) - 750 * Len(vals)
        x    == (IF dev < 0 THEN 0 - dev ELSE dev) * (D \div (5 * Len(vals)))
    IN  IF Len(vals) > 0 THEN Min(100 * D, Max(0, 100 * D - x)) ELSE 50 * D

life_workout_rate(w) ==
    Len(SelectSeq(w, LAMBDA r : r.had_workout)) * 100 * (life_den(w) \div Len(w))

life_rel_sc(w) ==
    LET kate_days == life_kate_days(w)
        rated     == RatingsOf(kate_days)
        D         == life_den(w)
    IN  Min(100 * D,
            Len(kate_days) * 50 * (D \div Len(w))
            + (IF Len(kate_days) > 0 /\ Len(rated) > 0
               THEN SumSeq(rated) * 25 * (D \div (3 * Len(rated)))
               ELSE 25 * D))

life_testik_sc(w) ==
    Len(SelectSeq(w, LAMBDA r : r.testik = "PLUS")) * 100 * (life_den(w) \div Len(w))

life_mood_sc(w) ==
    LET ratings == RatingsOf(w)
        D       == life_den(w)
    IN  IF Len(ratings) > 0 THEN SumSeq(ratings) * 50 * (D \div (3 * Len(ratings))) ELSE 50 * D

\* [prod, sleep_sc, workout_rate, rel_sc, testik_sc, mood_sc] of a non-empty window
life_values(w) ==
    <<life_prod(w) * (life_den(w) \div 10), life_sleep_sc(w), life_workout_rate(w),
      life_rel_sc(w), life_testik_sc(w), life_mood_sc(w)>>

\* round(statistics.mean([the six values]), 1), in tenths
life_total(w) == RoundHalfEven(5 * SumSeq(life_values(w)), 3 * life_den(w))

\* the six functions handed to trend_arrow, each as a quotient [num, den]
life_trend_fns(d) ==
    LET vals    == life_sleep_vals(d)
        ratings == RatingsOf(d)
        len     == Max(Len(d), 1)
    IN  << [num |-> SumSeq(ScoresOf(d)), den |-> Len(d)],
           IF Len(vals) > 0 THEN [num |-> SumSeq(vals), den |-> Len(vals)]
                            ELSE [num |-> 0, den |-> 1],
           [num |-> Len(SelectSeq(d, LAMBDA r : r.had_workout)), den |-> len],
           [num |-> Len(life_kate_days(d)), den |-> len],
           [num |-> Len(SelectSeq(d, LAMBDA r : r.testik = "PLUS")), den |-> len],
           IF Len(ratings) > 0 THEN [num |-> SumSeq(ratings), den |-> Len(ratings)]
                               ELSE [num |-> 3, den |-> 1] >>

trend_arrow(current, previous, k) ==
    LET c == life_trend_fns(current)[k]
        q == life_trend_fns(previous)[k]
    IN  IF Len(previous) = 0 THEN "flat"
        ELSE IF c.num * q.den > q.num * c.den THEN "up"
        ELSE IF c.num * q.den < q.num * c.den THEN "down"
        ELSE "flat"

compute_life_score(rs) ==
    LET days       == life_days(rs)
        recent     == life_recent(days)
        prev       == life_prev(days)
        total      == life_total(recent)
        prev_total == IF Len(prev) > 0 THEN MeanTenths(ScoresOf(prev), 10) ELSE 0
    IN  IF Len(days) = 0
        THEN [total |-> 0, trend_delta |-> 0, dimensions |-> <<>>, trend_weeks |-> 0]
        ELSE [total |-> total,
              trend_delta |-> total - prev_total,
              dimensions |->
                  [k \in 1..6 |->
                      [score |-> RoundHalfEven(10 * life_values(recent)[k], life_den(recent)),
                       trend |-> trend_arrow(recent, prev, k)]],
              trend_weeks |-> IF Len(prev) > 0 /\ total > prev_total THEN 1 ELSE 0]

(***************************************************************************)
(* AIAnalyzer.detect_anomalies (ai_analyzer.py).  With n scores of sum S,  *)
(* deviation > stdev * 1.5 is compared squared and multiplied out:         *)
(* 4 (n - 1) (n s - S)^2 > 9 * sum of (n s_j - S)^2.                       *)
(***************************************************************************)
Abs(x) == IF x < 0 THEN 0 - x ELSE x

is_anomaly(r, days) ==
    LET scores == ScoresOf(days)
        n      == Len(scores)
        S      == SumSeq(scores)
        sq(x)  == x * x
    IN  4 * (n - 1) * sq(n * productivity_score(r) - S)
            > 9 * SumSeq([j \in 1..n |-> sq(n * scores[j] - S)])

Anomaly(r, days) ==
    [entry_date |-> r.entry_date,
     score      |-> productivity_score(r),
     avg_score  |-> MeanTenths(ScoresOf(days), 10),
     direction  |-> IF productivity_score(r) * Len(days) > SumSeq(ScoresOf(days))
                    THEN "high" ELSE "low",
     activities |-> SelectSeq(r.activities, LAMBDA a : a # "MARK")]

\* anomalies.sort(key=lambda a: abs(a.score - a.avg_score), reverse=True): stable
RECURSIVE SortAnomalies(_)
SortAnomalies(as) ==
    IF Len(as) = 0 THEN <<>>
    ELSE LET key(a) == Abs(a.score - a.avg_score)
             m      == CHOOSE k \in {key(as[i]) : i \in 1..Len(as)} :
                           \A i \in 1..Len(as) : key(as[i]) <= k
         IN  SelectSeq(as, LAMBDA a : key(a) = m)
             \o SortAnomalies(SelectSeq(as, LAMBDA a : key(a) # m))

detect_anomalies(rs) ==
    LET days  == SortByDate(NonWeekly(rs))
        found == SelectSeq(days, LAMBDA r : is_anomaly(r, days))
    IN  IF Len(days) < 7 THEN <<>>
        ELSE Take(SortAnomalies([i \in 1..Len(found) |-> Anomaly(found[i], days)]), 10)

(***************************************************************************)
(* AIAnalyzer.analyze_month (ai_analyzer.py).  Means are rounded as the    *)
(* code rounds them: avg_rating_score and the rates in hundredths,         *)
(* avg_hours and avg_sleep_hours in tenths.                                *)
(***************************************************************************)
\* max(days, key=...) / min(days, key=...): the first of the largest / smallest
month_best(days) ==
    days[CHOOSE i \in 1..Len(days) :
            /\ \A j \in 1..Len(days) : productivity_score(days[j]) <= productivity_score(days[i])
            /\ \A j \in 1..(i - 1) : productivity_score(days[j]) < productivity_score(days[i])]

month_worst(days) ==
    days[CHOOSE i \in 1..Len(days) :
            /\ \A j \in 1..Len(days) : productivity_score(days[j]) >= productivity_score(days[i])
            /\ \A j \in 1..(i - 1) : productivity_score(days[j]) > productivity_score(days[i])]

DaySummary(r) ==
    [entry_date |-> r.entry_date, productivity_score |-> productivity_score(r),
     rating |-> r.rating, total_hours |-> r.total_hours, activities |-> r.activities]

\* every activity of every day, in the order activity_counter meets them
RECURSIVE month_activities(_)
month_activities(days) ==
    IF Len(days) = 0 THEN <<>> ELSE days[1].activities \o month_activities(Tail(days))

\* activity_counter.most_common(15): (activity, count) by count, largest first,
\* equal counts in the order the activities were first met
RECURSIVE most_common(_, _)
most_common(seen, left) ==
    IF left = {} THEN <<>>
    ELSE LET count(a) == Len(SelectSeq(seen, LAMBDA x : x = a))
             first(a) == CHOOSE i \in 1..Len(seen) :
                             seen[i] = a /\ \A j \in 1..(i - 1) : seen[j] # a
             top == CHOOSE a \in left :
                        \A b \in left : \/ count(a) > count(b)
                                        \/ count(a) = count(b) /\ first(a) <= first(b)
         IN  <<<<top, count(top)>>>> \o most_common(seen, left \ {top})

analyze_month(rs) ==
    LET days          == NonWeekly(rs)
        n             == Len(days)
        rating_scores == RatingsOf(days)
        sleep_vals    == life_sleep_vals(days)
        rate(flagged) == RoundHalfEven(Len(flagged) * 100, n)
        seen          == month_activities(days)
    IN  IF n = 0
        THEN [total_days |-> 0, avg_rating_score |-> 0, avg_hours |-> 0,
              avg_sleep_hours |-> NoNumber, total_tasks |-> 0, workout_rate |-> 0,
              university_rate |-> 0, coding_rate |-> 0, kate_rate |-> 0,
              best_day |-> NoObject, worst_day |-> NoObject,
              ai_insights |-> [kind |-> "placeholder"], activity_breakdown |-> <<>>]
        ELSE [total_days |-> n,
              avg_rating_score |-> IF Len(rating_scores) > 0
                                   THEN RoundHalfEven(SumSeq(rating_scores) * 100, Len(rating_scores))
                                   ELSE 0,
              avg_hours |-> RoundHalfEven(SumSeq([i \in 1..n |-> days[i].total_hours]), n),
              avg_sleep_hours |-> IF Len(sleep_vals) > 0
                                  THEN RoundHalfEven(SumSeq(sleep_vals), 10 * Len(sleep_vals))
                                  ELSE NoNumber,
              total_tasks |-> SumSeq([i \in 1..n |-> days[i].tasks_count]),
              workout_rate |-> rate(SelectSeq(days, LAMBDA r : r.had_workout)),
              university_rate |-> rate(SelectSeq(days, LAMBDA r : r.had_university)),
              coding_rate |-> rate(SelectSeq(days, LAMBDA r : r.had_coding)),
              kate_rate |-> rate(SelectSeq(days, LAMBDA r : r.had_kate)),
              best_day |-> DaySummary(month_best(days)),
              worst_day |-> DaySummary(month_worst(days)),
              ai_insights |-> [kind |-> "gpt", summary |-> _records_to_summary(days)],
              activity_breakdown |-> Take(most_common(seen, SeqToSet(seen)), 15)]

(***************************************************************************)
(* CacheService (cache.py): the daily_records and task_entries tables and  *)
(* the last_sync row, and NotionService.get_daily_records on top of them.  *)
(* A Notion page is [id, title, date, tags, checkbox, number, blocks].     *)
(***************************************************************************)
ttl_seconds == 300

\* int(b) and bool(n)
IntOfBool(b) == IF b THEN 1 ELSE 0
BoolOfInt(n) == n # 0

\* the row upsert_daily_records writes for r
DailyRow(r) ==
    [entry_date |-> r.entry_date, rating |-> r.rating, testik |-> r.testik,
     sleep_json |-> <<r.sleep.woke_up_at, r.sleep.sleep_duration, r.sleep.sleep_hours,
                      r.sleep.recovery>>,
     activities |-> r.activities, total_hours |-> r.total_hours,
     tasks_count |-> r.tasks_count, tasks_completed |-> r.tasks_completed,
     had_workout |-> IntOfBool(r.had_workout), had_university |-> IntOfBool(r.had_university),
     had_coding |-> IntOfBool(r.had_coding), had_kate |-> IntOfBool(r.had_kate),
     journal_text |-> r.journal_text, is_weekly_summary |-> IntOfBool(r.is_weekly_summary)]

_row_to_daily(row) ==
    [entry_date |-> row.entry_date, rating |-> row.rating, testik |-> row.testik,
     sleep |-> [woke_up_at |-> row.sleep_json[1], sleep_duration |-> row.sleep_json[2],
                sleep_hours |-> row.sleep_json[3], recovery |-> row.sleep_json[4]],
     activities |-> row.activities, total_hours |-> row.total_hours,
     tasks_count |-> row.tasks_count, tasks_completed |-> row.tasks_completed,
     had_workout |-> BoolOfInt(row.had_workout), had_university |-> BoolOfInt(row.had_university),
     had_coding |-> BoolOfInt(row.had_coding), had_kate |-> BoolOfInt(row.had_kate),
     journal_text |-> row.journal_text, is_weekly_summary |-> BoolOfInt(row.is_weekly_summary)]

\* the row upsert_tasks writes for t
TaskRow(t) == [t EXCEPT !.checkbox = IntOfBool(@)]

\* INSERT OR REPLACE INTO a table whose PRIMARY KEY is the key: the row stored
\* under key.  The cached_at column, which no query reads back, is left out.
Replace_keeps_existing(table, key, row) ==
    [k \in (DOMAIN table) \cup {key} |-> IF k \in DOMAIN table THEN table[k] ELSE row]

Replace(table, key, row) ==
    [k \in (DOMAIN table) \cup {key} |-> IF k = key THEN row ELSE table[k]]

RECURSIVE upsert_tasks(_, _)
upsert_tasks(table, ts) ==
    IF Len(ts) = 0 THEN table
    ELSE upsert_tasks(Replace(table, ts[1].id, TaskRow(ts[1])), Tail(ts))

RECURSIVE upsert_daily_records(_, _)
upsert_daily_records(table, rs) ==
    IF Len(rs) = 0 THEN table
    ELSE upsert_daily_records(Replace(table, rs[1].entry_date, DailyRow(rs[1])), Tail(rs))

\* is_cache_fresh at time t
is_cache_fresh(sync, t) == sync # NoNumber /\ t - sync < ttl_seconds

\* CacheService.get_daily_records: exclude_weekly is left at its default, True
cache_get_daily_records(table, start_date, end_date) ==
    LET ds == SortedDesc({d \in DOMAIN table :
                            /\ start_date <= d /\ d <= end_date
                            /\ table[d].is_weekly_summary = 0})
    IN  [i \in 1..Len(ds) |-> _row_to_daily(table[ds[i]])]

\* _query_database: the pages dated within the range, latest date first
RECURSIVE SortPagesDesc(_)
SortPagesDesc(ps) ==
    IF Len(ps) = 0 THEN <<>>
    ELSE LET m == SortedDesc({ps[i].date : i \in 1..Len(ps)})[1]
         IN  SelectSeq(ps, LAMBDA q : q.date = m) \o SortPagesDesc(SelectSeq(ps, LAMBDA q : q.date # m))
_query_database(pages, start_date, end_date) ==
    SortPagesDesc(SelectSeq(pages, LAMBDA q : q.date # NoNumber /\ start_date <= q.date /\ q.date <= end_date))

\* _parse_page: a TaskEntry, or None for a page without a date.  A page is its id
\* with the fields of page["properties"]; a page without "properties" is [id |-> i],
\* and the KeyError it causes is caught and answered with None.
_parse_page_keeps_undated(page) ==
    IF "date" \notin DOMAIN page THEN NoObject
    ELSE [id |-> page.id, title |-> page.title, entry_date |-> page.date, tags |-> page.tags,
          checkbox |-> page.checkbox,
          hours |-> IF page.number # NoNumber /\ page.number > 0 THEN page.number ELSE NoNumber,
          body_text |-> ""]

_parse_page(page) ==
    IF "date" \notin DOMAIN page THEN NoObject
    ELSE IF page.date = NoNumber THEN NoObject
    ELSE [id |-> page.id, title |-> page.title, entry_date |-> page.date, tags |-> page.tags,
          checkbox |-> page.checkbox,
          hours |-> IF page.number # NoNumber /\ page.number > 0 THEN page.number ELSE NoNumber,
          body_text |-> ""]

\* step 2: the body of each page whose upper-cased title is one of the three names
FetchBody(task, pages) ==
    IF Upper(task.title) \in WeeklyTitles \cup {"MARK"}
    THEN [task EXCEPT !.body_text = (CHOOSE q \in SeqToSet(pages) : q.id = task.id).blocks]
    ELSE task

\* get_daily_records from the answer of _query_database on: parse, filter, step 2
ParseAndFetch(raw_pages, pages) ==
    LET parsed_pages == SelectSeq([i \in 1..Len(raw_pages) |-> _parse_page(raw_pages[i])],
                                  LAMBDA t : t # NoObject)
    IN  [i \in 1..Len(parsed_pages) |-> FetchBody(parsed_pages[i], pages)]

\* steps 1 and 2 of get_daily_records: the task rows of the range
FetchTasks(pages, start_date, end_date) ==
    ParseAndFetch(_query_database(pages, start_date, end_date), pages)

(***************************************************************************)
(* The values each group of variables holds while a specification does    *)
(* not use it.                                                             *)
(***************************************************************************)
ParseIdle == text = "" /\ expect = None /\ parsed = Unset
ScoreIdle == rec = NoObject /\ score = NoNumber
AggIdle   == tasks = <<>> /\ by_date = <<>> /\ records = <<>> /\ prev_records = <<>> /\ calls = 0
AnaIdle   == recs = <<>> /\ streaks = NotCalled /\ kate = NotCalled /\ formula_out = NotCalled
CallIdle  == outcome = NotCalled /\ prev_outcome = NotCalled
NoMarkers == [briefing |-> "", midday |-> "", evening |-> "", alert |-> "", digest |-> ""]
RateIdle  == _rate_limits = <<>> /\ clock = 0 /\ checks = <<>>
PollIdle  == /\ offset = 0 /\ updates = <<>> /\ poll_pc = "get_updates" /\ arrived = 0
             /\ handed = <<>> /\ returned = <<>> /\ failed = {}
BackgroundIdle == markers = NoMarkers /\ bg_clock = 0 /\ attempts = <<>>
BotIdle   == RateIdle /\ PollIdle /\ BackgroundIdle
SvcIdle   == /\ upstream = <<>> /\ task_entries = <<>> /\ daily_records = <<>>
             /\ last_sync = NoNumber /\ now = 0 /\ req = NoObject /\ result = <<>> /\ served = None

(***************************************************************************)
(* SpecTestik: parse_testik applied to texts put together from pieces of   *)
(* the three markers.                                                      *)
(***************************************************************************)
MaxFrags == 4

TestikFrags == {"MINUS ", "minus ", "TEST", "ik", " KATE", "PLUS TEST", "\n"}

RECURSIVE FragTexts(_)
FragTexts(n) ==
    IF n = 0 THEN {""}
    ELSE LET S == FragTexts(n - 1) IN S \cup {s \o f : s \in S, f \in TestikFrags}

InitTestik ==
    /\ text \in FragTexts(MaxFrags)
    /\ expect = None
    /\ parsed = Unset
    /\ ScoreIdle /\ AggIdle /\ AnaIdle /\ SvcIdle /\ CallIdle /\ BotIdle

ParseTestik ==
    /\ parsed = Unset
    /\ parsed' = parse_testik(text)
    /\ UNCHANGED <<text, expect, scoreVars, aggVars, anaVars, svcVars, callVars, botVars>>

NextTestik == ParseTestik

SpecTestik == InitTestik /\ [][NextTestik]_vars

\* pattern p occurs somewhere in the upper-cased text
Occurs(p) ==
    LET U == Upper(text)
    IN  \E i \in 1..Len(U) : i + Len(p) - 1 <= Len(U) /\ SubSeq(U, i, i + Len(p) - 1) = p

PartnerOccurs == Occurs("MINUS TESTIK KATE") \/ Occurs("MINUS TEST KATE")
MinusOccurs   == Occurs("MINUS TESTIK") \/ Occurs("MINUS TEST")
PlusOccurs    == Occurs("PLUS TESTIK") \/ Occurs("PLUS TEST")

\* C6: parse_testik returns MINUS_KATE whenever the minus-with-partner pattern
\* occurs in the upper-cased text, whatever else occurs; MINUS exactly when a bare
\* minus pattern occurs and no partner pattern does; PLUS exactly when a plus
\* pattern occurs and no minus pattern does; None otherwise.
C6_TestikPriority ==
    parsed # Unset =>
        /\ PartnerOccurs => parsed = "MINUS_KATE"
        /\ parsed = "MINUS_KATE" => PartnerOccurs
        /\ parsed = "MINUS" <=> (MinusOccurs /\ ~PartnerOccurs)
        /\ parsed = "PLUS" <=> (PlusOccurs /\ ~MinusOccurs /\ ~PartnerOccurs)
        /\ parsed = None <=> (~PlusOccurs /\ ~MinusOccurs /\ ~PartnerOccurs)

\* the partner pattern and the plus pattern both occur, and the parser has answered
C6_Witness ==
    /\ parsed = "MINUS_KATE"
    /\ PlusOccurs
    /\ MinusOccurs

(***************************************************************************)
(* SpecRating: parse_day_rating applied to texts written around one        *)
(* "MARK: <value>" marker, and to texts without a marker.                  *)
(***************************************************************************)
\* text before the marker: none of these holds a marker the pattern matches
RatingPrefixes == {"", "Day was bad.\n", "MARKS: good? ", "MARK: great. "}

RatingMarks == {"MARK", "mark", "Mark"}

\* <<the value as written, the label it spells>>
RatingValueTexts ==
    { <<"very good", "very good">>, <<"Very  Good", "very good">>, <<"VERY\tGOOD", "very good">>,
      <<"very bad", "very bad">>, <<"Very \n BAD", "very bad">>,
      <<"perfect", "perfect">>, <<"PERFECT", "perfect">>,
      <<"good", "good">>, <<"Good", "good">>,
      <<"normal", "normal">>, <<"NORMAL", "normal">>,
      <<"bad", "bad">>, <<"BAD", "bad">> }

RatingSuffixes == {"", "ness", "\nMARK: bad", ". PLUS TESTIK"}

NoMarkerTexts ==
    {"", "good", "very good day", "MARK good", "MARK: verygood", "MARK: great",
     "MARC: good", "MARK; good", "MA RK: good", "MARK:\n", "MARK: very\n", "very bad :MARK"}

InitRating ==
    /\ \/ \E pre \in RatingPrefixes, m \in RatingMarks, w1 \in {"", " "},
            w2 \in {"", " ", "\n\t"}, v \in RatingValueTexts, suf \in RatingSuffixes :
              /\ text = pre \o m \o w1 \o ":" \o w2 \o v[1] \o suf
              /\ expect = v[2]
       \/ /\ text \in NoMarkerTexts
          /\ expect = None
    /\ parsed = Unset
    /\ ScoreIdle /\ AggIdle /\ AnaIdle /\ SvcIdle /\ CallIdle /\ BotIdle

ParseDayRating ==
    /\ parsed = Unset
    /\ parsed' = parse_day_rating(text)
    /\ UNCHANGED <<text, expect, scoreVars, aggVars, anaVars, svcVars, callVars, botVars>>

NextRating == ParseDayRating

SpecRating == InitRating /\ [][NextRating]_vars

\* C7: for a marker whose value spells one of the six labels (any letter case, any
\* run of whitespace between the two words of a two-word label) parse_day_rating
\* returns exactly that label's enum value, so VERY_GOOD and VERY_BAD are never
\* read as GOOD or BAD; it returns None when the text holds no marker.
C7_RatingLabel == parsed # Unset => parsed = expect

\* a two-word value written with a run of whitespace and mixed case has been parsed
C7_Witness ==
    /\ parsed = "very bad"
    /\ StrIn("Very \n BAD", text)

(***************************************************************************)
(* SpecScore: productivity_score read on records over a grid of field      *)
(* values that reaches past every cap.                                     *)
(***************************************************************************)
MaxHourSteps  == 5    \* total_hours up to MaxHourSteps * 2.5 h
MaxSleepHours == 9    \* sleep_hours up to MaxSleepHours h
MaxTasksCount == 7    \* tasks_count up to MaxTasksCount

InitScore ==
    /\ \E rt \in DayRatingValues \cup {None}, h \in 0..MaxHourSteps,
          sl \in {NoNumber} \cup {100 * k : k \in 0..MaxSleepHours}, n \in 0..MaxTasksCount,
          w \in BOOLEAN, u \in BOOLEAN, c \in BOOLEAN :
            rec = [DefaultRecord(1) EXCEPT
                      !.rating = rt, !.total_hours = 25 * h,
                      !.sleep = [NoSleep EXCEPT !.sleep_hours = sl],
                      !.tasks_count = n, !.had_workout = w,
                      !.had_university = u, !.had_coding = c]
    /\ score = NoNumber
    /\ ParseIdle /\ AggIdle /\ AnaIdle /\ SvcIdle /\ CallIdle /\ BotIdle

ReadScore ==
    /\ score = NoNumber
    /\ score' = productivity_score(rec)
    /\ UNCHANGED <<rec, parseVars, aggVars, anaVars, svcVars, callVars, botVars>>

NextScore == ReadScore

SpecScore == InitScore /\ [][NextScore]_vars

\* C8: the productivity score lies in [0, 100] (0..1000 tenths), and each of the
\* five components lies between 0 and its weight 25, 25, 20, 15, 15 (in 1/120
\* of a point: 3000, 3000, 2400, 1800, 1800) before the sum.
C8_ScoreRange ==
    score # NoNumber =>
        /\ score >= 0 /\ score <= 1000
        /\ score = RoundHalfEven(rating_score(rec) + hours_score(rec) + sleep_score(rec)
                                 + activity_score(rec) + bonus(rec), 12)
        /\ rating_score(rec) >= 0 /\ rating_score(rec) <= 3000
        /\ hours_score(rec) >= 0 /\ hours_score(rec) <= 3000
        /\ sleep_score(rec) >= 0 /\ sleep_score(rec) <= 2400
        /\ activity_score(rec) >= 0 /\ activity_score(rec) <= 1800
        /\ bonus(rec) >= 0 /\ bonus(rec) <= 1800

\* a record past every cap has been scored: more than 10 h, more than 8 h of sleep,
\* more than 6 tasks, the best rating and all three bonus flags
C8_Witness ==
    /\ score = 1000
    /\ rec.total_hours > 100
    /\ rec.sleep.sleep_hours > 800
    /\ rec.tasks_count > 6

(***************************************************************************)
(* SpecAggregate: _aggregate_daily called, again and again, on one list of *)
(* task rows.                                                              *)
(***************************************************************************)
MaxDate  == 3    \* entry dates are the days 1..MaxDate
MaxTasks == 2    \* rows in the input list
MaxCalls == 2    \* calls of _aggregate_daily on it

\* what a row of the list can look like, apart from its id and its date
TaskKinds ==
    { [title |-> "MARK", tags |-> <<"MARK">>, checkbox |-> FALSE, hours |-> NoNumber,
       body_text |-> "Woke up at 8:30. Sleep time 7:30\nPLUS TESTIK\nMARK: good"],
      [title |-> "MARK", tags |-> <<>>, checkbox |-> FALSE, hours |-> NoNumber, body_text |-> ""],
      [title |-> " Mark's week", tags |-> <<>>, checkbox |-> TRUE, hours |-> NoNumber,
       body_text |-> "minus test kate. Mark: very bad"],
      [title |-> "Gym", tags |-> <<"gym", "GYM">>, checkbox |-> TRUE, hours |-> 125,
       body_text |-> ""],
      [title |-> "Essay", tags |-> <<"University", "CODING">>, checkbox |-> FALSE,
       hours |-> 50, body_text |-> ""] }

TaskEntry(i, d, k) ==
    [id |-> i, title |-> k.title, entry_date |-> d, tags |-> k.tags,
     checkbox |-> k.checkbox, hours |-> k.hours, body_text |-> k.body_text]

InitAggregate ==
    /\ \E n \in 0..MaxTasks :
         \E ds \in [1..n -> 1..MaxDate], ks \in [1..n -> TaskKinds] :
            tasks = [i \in 1..n |-> TaskEntry(i, ds[i], ks[i])]
    /\ by_date = <<>>
    /\ records = <<>>
    /\ prev_records = <<>>
    /\ calls = 0
    /\ ParseIdle /\ ScoreIdle /\ AnaIdle /\ SvcIdle /\ CallIdle /\ BotIdle

\* records = NotionService._aggregate_daily(tasks)
AggregateDailyCall ==
    /\ calls < MaxCalls
    /\ by_date' = GroupByDate(ByDateNew, tasks)
    /\ records' = RecordsOf(by_date')
    /\ prev_records' = records
    /\ calls' = calls + 1
    /\ UNCHANGED <<tasks, parseVars, scoreVars, anaVars, svcVars, callVars, botVars>>

NextAggregate == AggregateDailyCall

SpecAggregate == InitAggregate /\ [][NextAggregate]_vars

TaskDates == {tasks[i].entry_date : i \in 1..Len(tasks)}

\* C3: _aggregate_daily returns exactly one DailyRecord per distinct entry_date of
\* its input: as many records as distinct dates, the records' dates are the input's
\* dates, and no two records share a date.
C3_OnePerDate ==
    calls >= 1 =>
        /\ Len(records) = Cardinality(TaskDates)
        /\ {records[i].entry_date : i \in 1..Len(records)} = TaskDates
        /\ \A i, j \in 1..Len(records) : i # j => records[i].entry_date # records[j].entry_date

\* two rows that share a date have been aggregated into one record
C3_Witness ==
    /\ calls >= 1
    /\ Len(tasks) = 2
    /\ Len(records) = 1

\* C4 as stated: the returned list is sorted ascending by date.
C4_SortedAscending ==
    calls >= 1 =>
        \A i, j \in 1..Len(records) : i < j => records[i].entry_date < records[j].entry_date

\* C4 as amended: the returned list is sorted descending by date: for any two
\* records at positions i < j, record i's date is later than record j's date.
C4_SortedDescending ==
    calls >= 1 =>
        \A i, j \in 1..Len(records) : i < j => records[i].entry_date > records[j].entry_date

\* a list of rows given earliest date first has been aggregated into several records
C4_Witness ==
    /\ calls >= 1
    /\ Len(records) >= 2
    /\ \A i, j \in 1..Len(tasks) : i < j => tasks[i].entry_date < tasks[j].entry_date

\* C5: a second call of _aggregate_daily on the same rows returns a list equal,
\* element by element, to the first call's: nothing a call counted, summed or
\* flagged is carried into the next call.
C5_RecomputedFromScratch ==
    calls >= 2 =>
        /\ records = prev_records
        /\ \A i \in 1..Len(records) :
              records[i].tasks_count
                 = Cardinality({k \in 1..Len(tasks) : tasks[k].entry_date = records[i].entry_date})

\* the second call has returned, on rows that give one day counts, hours and flags
C5_Witness ==
    /\ calls >= 2
    /\ \E i \in 1..Len(records) :
          /\ records[i].tasks_count >= 2
          /\ records[i].total_hours > 0
          /\ records[i].had_workout

(***************************************************************************)
(* SpecStreaks: compute_streaks called on a list of daily records, one per *)
(* date, latest first, as get_daily_records returns them.                  *)
(***************************************************************************)
MaxStreakDays == 4    \* the records' dates are among the days 1..MaxStreakDays

\* what a day's record can look like, apart from its date
DayProfiles ==
    { [DefaultRecord(0) EXCEPT !.testik = "PLUS", !.rating = "good", !.had_workout = TRUE,
          !.sleep = [NoSleep EXCEPT !.sleep_hours = 750], !.total_hours = 20,
          !.activities = <<"GYM", "CODING">>, !.tasks_count = 2],
      [DefaultRecord(0) EXCEPT !.testik = "MINUS", !.rating = "bad",
          !.sleep = [NoSleep EXCEPT !.sleep_hours = 500], !.activities = <<"MARK">>,
          !.tasks_count = 1],
      [DefaultRecord(0) EXCEPT !.testik = "PLUS", !.rating = "normal", !.had_workout = TRUE,
          !.total_hours = 5, !.activities = <<"GYM">>, !.tasks_count = 1],
      [DefaultRecord(0) EXCEPT !.testik = "MINUS_KATE", !.rating = "perfect",
          !.had_workout = TRUE, !.had_kate = TRUE, !.total_hours = 30,
          !.sleep = [NoSleep EXCEPT !.sleep_hours = 800],
          !.activities = <<"MARK'S WEEK", "GYM", "KATE">>, !.tasks_count = 3,
          !.is_weekly_summary = TRUE] }

\* a list holding one record for each date of Dt, latest first
RecordLists(profiles, maxDay) ==
    UNION { { [i \in 1..Cardinality(Dt) |->
                  [f[SortedDesc(Dt)[i]] EXCEPT !.entry_date = SortedDesc(Dt)[i]]]
              : f \in [Dt -> profiles] }
            : Dt \in SUBSET (1..maxDay) }

InitStreaks ==
    /\ recs \in RecordLists(DayProfiles, MaxStreakDays)
    /\ streaks = NotCalled
    /\ kate = NotCalled
    /\ formula_out = NotCalled
    /\ ParseIdle /\ ScoreIdle /\ AggIdle /\ SvcIdle /\ CallIdle /\ BotIdle

\* streaks = AIAnalyzer.compute_streaks(recs)
ComputeStreaks ==
    /\ streaks = NotCalled
    /\ streaks' = [kind |-> "returned", value |-> compute_streaks(recs)]
    /\ UNCHANGED <<recs, kate, formula_out, parseVars, scoreVars, aggVars, svcVars, callVars, botVars>>

NextStreaks == ComputeStreaks

SpecStreaks == InitStreaks /\ [][NextStreaks]_vars

\* C9: every streak compute_streaks returns has current <= record.
C9_CurrentAtMostRecord ==
    streaks # NotCalled =>
        \A k \in 1..Len(streaks.value) : streaks.value[k].current <= streaks.value[k].record

\* all five streaks have been returned, one of them running now (current >= 2, so
\* its record is the run still open) and one with an older, longer run
C9_Witness ==
    /\ streaks # NotCalled
    /\ Len(streaks.value) = 5
    /\ \E k \in 1..5 : streaks.value[k].current >= 2
    /\ \E k \in 1..5 : streaks.value[k].current >= 1
                       /\ streaks.value[k].record > streaks.value[k].current

\* whether the predicate of the streak called name holds of record r
Holds(name, r) ==
    CASE name = "TESTIK PLUS" -> r.testik = "PLUS"
      [] name = "GYM" -> r.had_workout
      [] name = "WORK" ->
            \/ r.total_hours >= 10
            \/ Cardinality({i \in 1..Len(r.activities) :
                              Upper(r.activities[i]) \notin {"MARK", "MARK'S WEAK", "MARK'S WEEK"}}) >= 2
      [] name = "RATING >= good" -> r.rating \in {"good", "very good", "perfect"}
      [] name = "SLEEP >= 7h" -> r.sleep.sleep_hours >= 700

\* the dates of the non-summary records of recs on which the predicate held
HeldOn(name) ==
    {recs[i].entry_date : i \in {j \in 1..Len(recs) :
                                    ~recs[j].is_weekly_summary /\ Holds(name, recs[j])}}

\* C10: every returned streak's last_date is the most recent date among the
\* non-summary records on which its predicate held, and is None only when the
\* predicate held on no record.
C10_LastDate ==
    streaks # NotCalled =>
        \A k \in 1..Len(streaks.value) :
            LET s == streaks.value[k]
            IN  IF HeldOn(s.name) = {} THEN s.last_date = NoNumber
                ELSE /\ s.last_date \in HeldOn(s.name)
                     /\ \A d \in HeldOn(s.name) : d <= s.last_date

(***************************************************************************)
(* SpecAnalytics: the analytics functions called on a list of records that *)
(* may hold weekly-summary rows, as a refresh returns it.                  *)
(***************************************************************************)
MaxDays == 7    \* the records' dates are among the days 1..MaxDays

AnalyticsProfiles ==
    { [DefaultRecord(0) EXCEPT !.testik = "PLUS", !.rating = "good", !.had_workout = TRUE,
          !.total_hours = 20, !.activities = <<"GYM", "CODING">>, !.tasks_count = 2],
      [DefaultRecord(0) EXCEPT !.had_kate = TRUE, !.activities = <<"KATE">>, !.tasks_count = 1],
      [DefaultRecord(0) EXCEPT !.testik = "MINUS_KATE", !.rating = "perfect",
          !.had_kate = TRUE, !.activities = <<"MARK'S WEEK", "KATE">>, !.tasks_count = 2,
          !.is_weekly_summary = TRUE] }

InitAnalytics ==
    /\ recs \in RecordLists(AnalyticsProfiles, MaxDays)
    /\ streaks = NotCalled
    /\ kate = NotCalled
    /\ formula_out = NotCalled
    /\ ParseIdle /\ ScoreIdle /\ AggIdle /\ SvcIdle /\ CallIdle /\ BotIdle

\* kate = await AIAnalyzer.kate_impact(recs)
KateImpact ==
    /\ kate = NotCalled
    /\ kate' = kate_impact(recs)
    /\ UNCHANGED <<recs, streaks, formula_out, parseVars, scoreVars, aggVars, svcVars, callVars, botVars>>

\* formula_out = await AIAnalyzer.formula(recs)
Formula ==
    /\ formula_out = NotCalled
    /\ formula_out' = formula(recs)
    /\ UNCHANGED <<recs, streaks, kate, parseVars, scoreVars, aggVars, svcVars, callVars, botVars>>

NextAnalytics == ComputeStreaks \/ KateImpact \/ Formula

SpecAnalytics == InitAnalytics /\ [][NextAnalytics]_vars

\* C2: what an analytics function returns on a list holding weekly-summary records
\* is what it returns on the list with those records removed (compute_streaks,
\* kate_impact and formula here).
C2_WeeklyRowsIgnored ==
    /\ streaks # NotCalled => streaks.value = compute_streaks(NonWeekly(recs))
    /\ kate # NotCalled => kate = kate_impact(NonWeekly(recs))
    /\ formula_out # NotCalled => formula_out = formula(NonWeekly(recs))

(***************************************************************************)
(* SpecCache: get_daily_records called again and again, with and without   *)
(* force_refresh, against Notion data that does not change, while the      *)
(* clock advances.                                                         *)
(***************************************************************************)
MaxCacheDate == 2      \* the pages' dates are the days 1..MaxCacheDate
MaxPages     == 2      \* pages in the Notion database
MaxNow       == 400    \* the clock stops here (seconds)

\* date.today(): no page is dated in the future
Today == MaxCacheDate

\* what a page can look like, apart from its id and its date
PageKinds ==
    { [title |-> "MARK", tags |-> <<>>, checkbox |-> FALSE, number |-> NoNumber,
       blocks |-> "MARK: good\nPLUS TESTIK"],
      [title |-> "Mark's week", tags |-> <<>>, checkbox |-> FALSE, number |-> NoNumber,
       blocks |-> "MARK: bad"],
      [title |-> "Gym", tags |-> <<"GYM">>, checkbox |-> TRUE, number |-> 150, blocks |-> ""] }

Page(i, d, k) ==
    [id |-> i, title |-> k.title, date |-> d, tags |-> k.tags, checkbox |-> k.checkbox,
     number |-> k.number, blocks |-> k.blocks]

\* the ranges a caller asks for: both ends given, or both left to their defaults
Ranges ==
    {<<a, b>> \in (1..MaxCacheDate) \X (1..MaxCacheDate) : a <= b} \cup {<<NoNumber, NoNumber>>}

InitCache ==
    /\ \E n \in 0..MaxPages :
         \E ds \in [1..n -> 1..MaxCacheDate], ks \in [1..n -> PageKinds] :
            upstream = [i \in 1..n |-> Page(i, ds[i], ks[i])]
    /\ task_entries = <<>>
    /\ daily_records = <<>>
    /\ last_sync = NoNumber
    /\ now = 0
    /\ req = NoObject
    /\ result = <<>>
    /\ served = None
    /\ ParseIdle /\ ScoreIdle /\ AggIdle /\ AnaIdle /\ CallIdle /\ BotIdle

\* what steps 1 to 3 of get_daily_records build for a range
FetchRecords(start_date, end_date) ==
    AggregateDaily(FetchTasks(upstream,
                              IF start_date = NoNumber THEN Today - 90 ELSE start_date,
                              IF end_date = NoNumber THEN Today ELSE end_date))

\* result = await NotionService.get_daily_records(start_date, end_date, force_refresh)
GetDailyRecords(start_date, end_date, force_refresh) ==
    LET s == IF start_date = NoNumber THEN Today - 90 ELSE start_date
        e == IF end_date = NoNumber THEN Today ELSE end_date
        fetched == FetchTasks(upstream, s, e)
        built   == AggregateDaily(fetched)
    IN  /\ req' = [start_date |-> start_date, end_date |-> end_date,
                   force_refresh |-> force_refresh]
        /\ IF ~force_refresh /\ is_cache_fresh(last_sync, now)
           THEN /\ result' = cache_get_daily_records(daily_records, s, e)
                /\ served' = "cache"
                /\ UNCHANGED <<task_entries, daily_records, last_sync>>
           ELSE /\ task_entries' = IF Len(fetched) > 0 THEN upsert_tasks(task_entries, fetched)
                                   ELSE task_entries
                /\ daily_records' = IF Len(built) > 0
                                    THEN upsert_daily_records(daily_records, built)
                                    ELSE daily_records
                /\ last_sync' = IF Len(built) > 0 THEN now ELSE last_sync
                /\ result' = built
                /\ served' = "refresh"
        /\ UNCHANGED <<upstream, now, parseVars, scoreVars, aggVars, anaVars, callVars, botVars>>

\* time passes
Tick ==
    /\ now < MaxNow
    /\ now' = now + 200
    /\ UNCHANGED <<upstream, task_entries, daily_records, last_sync, req, result, served,
                   parseVars, scoreVars, aggVars, anaVars, callVars, botVars>>

NextCache ==
    \/ \E rg \in Ranges, force_refresh \in BOOLEAN : GetDailyRecords(rg[1], rg[2], force_refresh)
    \/ Tick

SpecCache == InitCache /\ [][NextCache]_vars

\* C1: against unchanged Notion data, a call served from the cache returns the same
\* set of DailyRecords as a forced refresh of the same date range would return.
C1_CachePassThrough ==
    served = "cache" =>
        SeqToSet(result) = SeqToSet(FetchRecords(req.start_date, req.end_date))

(***************************************************************************)
(* SpecBurnout: predict_burnout called on a list of records and then once  *)
(* more on the list with one day's record replaced.                        *)
(***************************************************************************)
MaxBurnoutDays == 5    \* the records' dates are among the days 1..MaxBurnoutDays

BurnoutProfiles ==
    { [DefaultRecord(0) EXCEPT !.testik = "MINUS", !.rating = "bad", !.total_hours = 120,
          !.sleep = [NoSleep EXCEPT !.sleep_hours = 500], !.tasks_count = 1],
      [DefaultRecord(0) EXCEPT !.testik = "PLUS", !.rating = "good", !.total_hours = 40,
          !.sleep = [NoSleep EXCEPT !.sleep_hours = 800], !.had_workout = TRUE,
          !.activities = <<"GYM", "CODING">>, !.tasks_count = 4],
      [DefaultRecord(0) EXCEPT !.testik = "MINUS_KATE", !.rating = "very bad",
          !.total_hours = 150, !.had_kate = TRUE, !.activities = <<"MARK'S WEEK">>,
          !.tasks_count = 1, !.is_weekly_summary = TRUE] }

InitBurnout ==
    /\ recs \in RecordLists(BurnoutProfiles, MaxBurnoutDays)
    /\ streaks = NotCalled /\ kate = NotCalled /\ formula_out = NotCalled
    /\ CallIdle /\ BotIdle
    /\ ParseIdle /\ ScoreIdle /\ AggIdle /\ SvcIdle

Returned(fn, value) == [kind |-> "returned", fn |-> fn, value |-> value]

\* outcome = await AIAnalyzer.predict_burnout(recs)
PredictBurnout ==
    /\ outcome = NotCalled
    /\ outcome' = Returned("predict_burnout", predict_burnout(recs))
    /\ UNCHANGED <<prev_outcome, anaVars, parseVars, scoreVars, aggVars, svcVars, botVars>>

\* the record of one day is replaced and predict_burnout is called on the new list
PredictBurnoutAgain ==
    /\ outcome # NotCalled
    /\ prev_outcome = NotCalled
    /\ \E i \in 1..Len(recs), p \in BurnoutProfiles :
          /\ recs' = [recs EXCEPT ![i] = [p EXCEPT !.entry_date = recs[i].entry_date]]
          /\ recs' # recs
    /\ prev_outcome' = outcome
    /\ outcome' = Returned("predict_burnout", predict_burnout(recs'))
    /\ UNCHANGED <<streaks, kate, formula_out, parseVars, scoreVars, aggVars, svcVars, botVars>>

NextBurnout == PredictBurnout \/ PredictBurnoutAgain

SpecBurnout == InitBurnout /\ [][NextBurnout]_vars

\* C11: risk_score lies in [0, 100], and unless the result is 'unknown' the level
\* is 'low' iff score < 20, 'medium' iff 20 <= score < 45, 'high' iff
\* 45 <= score < 70, 'critical' iff score >= 70.
C11_BurnoutRange ==
    outcome # NotCalled =>
        LET b == outcome.value
        IN  /\ b.risk_score >= 0 /\ b.risk_score <= 100
            /\ b.risk_level # "unknown" =>
                  /\ b.risk_level = "low" <=> b.risk_score < 20
                  /\ b.risk_level = "medium" <=> (20 <= b.risk_score /\ b.risk_score < 45)
                  /\ b.risk_level = "high" <=> (45 <= b.risk_score /\ b.risk_score < 70)
                  /\ b.risk_level = "critical" <=> b.risk_score >= 70

\* all six factors were triggered at their higher weights (110 before the cap)
C11_Witness ==
    /\ outcome # NotCalled
    /\ Len(outcome.value.factors) = 6
    /\ outcome.value.factors[1] = "minus streak >= 3"
    /\ outcome.value.factors[2] = "avg sleep < 6"
    /\ outcome.value.risk_score = 100
    /\ outcome.value.risk_level = "critical"

\* the factors a result lists: none for the two fixed texts
TriggeredFactors(b) == SeqToSet(b.factors) \ {"insufficient data", "no critical factors"}

\* C12: of two results on at least 3 daily records each, when the second's triggered
\* factors are the first's and one more, the second's risk_score is >= the first's.
C12_BurnoutMonotonic ==
    (prev_outcome # NotCalled /\ prev_outcome.value.risk_level # "unknown"
                              /\ outcome.value.risk_level # "unknown") =>
        LET first  == TriggeredFactors(prev_outcome.value)
            second == TriggeredFactors(outcome.value)
        IN  (first \subseteq second /\ Cardinality(second \ first) = 1)
                => outcome.value.risk_score >= prev_outcome.value.risk_score

\* the second list triggers one factor more than the first, which triggered some
C12_Witness ==
    /\ prev_outcome # NotCalled
    /\ prev_outcome.value.risk_level # "unknown"
    /\ outcome.value.risk_level # "unknown"
    /\ TriggeredFactors(prev_outcome.value) # {}
    /\ TriggeredFactors(prev_outcome.value) \subseteq TriggeredFactors(outcome.value)
    /\ Cardinality(TriggeredFactors(outcome.value) \ TriggeredFactors(prev_outcome.value)) = 1
    /\ outcome.value.risk_score > prev_outcome.value.risk_score

\* the records of recs that are not period summaries
DailyCount == Cardinality({i \in 1..Len(recs) : ~recs[i].is_weekly_summary})

\* C13: with fewer than 3 records that are not period summaries predict_burnout
\* returns level 'unknown', score 0 and exactly one factor (insufficient data);
\* with 3 or more the level is never 'unknown'.
C13_BurnoutUnknown ==
    outcome # NotCalled =>
        LET b == outcome.value
        IN  IF DailyCount < 3
            THEN b.risk_level = "unknown" /\ b.risk_score = 0
                 /\ b.factors = <<"insufficient data">>
            ELSE b.risk_level # "unknown"

\* a list of three or more records, fewer than three of them daily, got 'unknown'
C13_Witness ==
    /\ outcome # NotCalled
    /\ Len(recs) >= 3
    /\ DailyCount < 3
    /\ outcome.value.risk_level = "unknown"

(***************************************************************************)
(* SpecGoals: a goal is set with /set_goal (parse_goal_arg) and its        *)
(* progress is computed over a list of records.                            *)
(***************************************************************************)
MaxGoalDays == 8    \* the records' dates are among the days 1..MaxGoalDays

GoalProfiles ==
    { [DefaultRecord(0) EXCEPT !.had_workout = TRUE, !.activities = <<"GYM", "READING">>,
          !.tasks_count = 2],
      [DefaultRecord(0) EXCEPT !.testik = "PLUS", !.tasks_count = 1] }

\* what follows /set_goal in the message
GoalTexts ==
    { "gym 1/week", "gym 2/month", " reading  3", "gym 0/week", "gym -2/week",
      "gym two/week", "gym 2/year", "gym" }

InitGoals ==
    /\ recs \in RecordLists(GoalProfiles, MaxGoalDays)
    /\ streaks = NotCalled /\ kate = NotCalled /\ formula_out = NotCalled
    /\ CallIdle /\ BotIdle
    /\ ParseIdle /\ ScoreIdle /\ AggIdle /\ SvcIdle

\* cmd_set_goal: outcome = parse_goal_arg(t)
SetGoal ==
    /\ outcome = NotCalled
    /\ \E t \in GoalTexts : outcome' = parse_goal_arg(t)
    /\ UNCHANGED <<prev_outcome, anaVars, parseVars, scoreVars, aggVars, svcVars, botVars>>

\* cmd_goals: outcome = AIAnalyzer.compute_goal_progress([the goal set], recs)
ComputeGoalProgress ==
    /\ outcome # NotCalled
    /\ outcome.kind = "returned"
    /\ outcome.fn = "parse_goal_arg"
    /\ prev_outcome' = outcome
    /\ outcome' = Returned("compute_goal_progress", compute_goal_progress(<<outcome.value>>, recs))
    /\ UNCHANGED <<anaVars, parseVars, scoreVars, aggVars, svcVars, botVars>>

NextGoals == SetGoal \/ ComputeGoalProgress

SpecGoals == InitGoals /\ [][NextGoals]_vars

\* C14: for every goal parse_goal_arg lets through and every record list, each
\* GoalProgress has its percentage in [0, 100] (0..1000 tenths), also when
\* current exceeds target.
C14_PercentageRange ==
    (outcome # NotCalled /\ outcome.kind = "returned" /\ outcome.fn = "compute_goal_progress") =>
        \A k \in 1..Len(outcome.value) :
            outcome.value[k].percentage >= 0 /\ outcome.value[k].percentage <= 1000

(***************************************************************************)
(* SpecLife: compute_life_score over record lists long enough to have a    *)
(* previous 14-day window.                                                 *)
(***************************************************************************)
MaxLifeDays == 29    \* the lists hold up to MaxLifeDays records

LifeProfiles ==
    { [DefaultRecord(0) EXCEPT !.testik = "PLUS", !.rating = "perfect", !.total_hours = 80,
          !.sleep = [NoSleep EXCEPT !.sleep_hours = 750], !.had_workout = TRUE,
          !.had_kate = TRUE, !.activities = <<"GYM", "KATE">>, !.tasks_count = 5],
      [DefaultRecord(0) EXCEPT !.testik = "MINUS", !.rating = "very bad",
          !.sleep = [NoSleep EXCEPT !.sleep_hours = 200]],
      [DefaultRecord(0) EXCEPT !.had_kate = TRUE, !.activities = <<"KATE">>, !.tasks_count = 1],
      [DefaultRecord(0) EXCEPT !.rating = "good", !.activities = <<"MARK'S WEEK">>,
          !.tasks_count = 1, !.is_weekly_summary = TRUE] }

\* n days, the oldest k with one profile and the later ones with another
LifeLists ==
    { [i \in 1..n |-> [(IF i <= k THEN a ELSE b) EXCEPT !.entry_date = i]]
        : <<n, k, a, b>> \in { q \in (0..MaxLifeDays) \X (0..MaxLifeDays) \X LifeProfiles \X LifeProfiles
                                 : q[2] <= q[1] } }

InitLife ==
    /\ recs \in LifeLists
    /\ streaks = NotCalled /\ kate = NotCalled /\ formula_out = NotCalled
    /\ CallIdle /\ BotIdle
    /\ ParseIdle /\ ScoreIdle /\ AggIdle /\ SvcIdle

ComputeLifeScore ==
    /\ outcome = NotCalled
    /\ outcome' = Returned("compute_life_score", compute_life_score(recs))
    /\ UNCHANGED <<prev_outcome, anaVars, parseVars, scoreVars, aggVars, svcVars, botVars>>

NextLife == ComputeLifeScore

SpecLife == InitLife /\ [][NextLife]_vars

LifeReturned == outcome # NotCalled /\ outcome.kind = "returned" /\ outcome.fn = "compute_life_score"

\* C15: trend_delta = total(recent) - total(prior), prior being the 14 records
\* before the 14 most recent ones and total(prior) the same six-dimension mean;
\* without a prior window trend_delta is 0.
C15_TrendDelta ==
    LifeReturned =>
        LET days == life_days(recs)
        IN  outcome.value.trend_delta =
                IF Len(days) >= 28
                THEN life_total(life_recent(days)) - life_total(SubSeq(days, 15, 28))
                ELSE 0

MaxSparseDays == 7    \* the records' dates are among the days 1..MaxSparseDays

SparseProfiles ==
    { DefaultRecord(0),
      [DefaultRecord(0) EXCEPT !.testik = "PLUS", !.rating = "good", !.total_hours = 60,
          !.sleep = [NoSleep EXCEPT !.sleep_hours = 700], !.had_workout = TRUE,
          !.had_kate = TRUE, !.activities = <<"MARK", "GYM", "KATE">>, !.tasks_count = 3] }

InitNearEmpty ==
    /\ recs \in RecordLists(SparseProfiles, MaxSparseDays)
    /\ streaks = NotCalled /\ kate = NotCalled /\ formula_out = NotCalled
    /\ CallIdle /\ BotIdle
    /\ ParseIdle /\ ScoreIdle /\ AggIdle /\ SvcIdle

CallKateImpact ==
    /\ outcome = NotCalled
    /\ outcome' = IF kate_impact(recs).kind = "raises"
                  THEN [kind |-> "raises", fn |-> "kate_impact", error |-> "StatisticsError"]
                  ELSE Returned("kate_impact", kate_impact(recs))
    /\ UNCHANGED <<prev_outcome, anaVars, parseVars, scoreVars, aggVars, svcVars, botVars>>

CallFormula ==
    /\ outcome = NotCalled
    /\ outcome' = Returned("formula", formula(recs))
    /\ UNCHANGED <<prev_outcome, anaVars, parseVars, scoreVars, aggVars, svcVars, botVars>>

CallComputeStreaks ==
    /\ outcome = NotCalled
    /\ outcome' = Returned("compute_streaks", compute_streaks(recs))
    /\ UNCHANGED <<prev_outcome, anaVars, parseVars, scoreVars, aggVars, svcVars, botVars>>

CallPredictBurnout ==
    /\ outcome = NotCalled
    /\ outcome' = Returned("predict_burnout", predict_burnout(recs))
    /\ UNCHANGED <<prev_outcome, anaVars, parseVars, scoreVars, aggVars, svcVars, botVars>>

CallComputeLifeScore ==
    /\ outcome = NotCalled
    /\ outcome' = Returned("compute_life_score", compute_life_score(recs))
    /\ UNCHANGED <<prev_outcome, anaVars, parseVars, scoreVars, aggVars, svcVars, botVars>>

CallDetectAnomalies ==
    /\ outcome = NotCalled
    /\ outcome' = Returned("detect_anomalies", detect_anomalies(recs))
    /\ UNCHANGED <<prev_outcome, anaVars, parseVars, scoreVars, aggVars, svcVars, botVars>>

NextNearEmpty ==
    \/ CallKateImpact
    \/ CallFormula
    \/ CallComputeStreaks
    \/ CallPredictBurnout
    \/ CallComputeLifeScore
    \/ CallDetectAnomalies

SpecNearEmpty == InitNearEmpty /\ [][NextNearEmpty]_vars

\* C16: on every record list, the empty one, a single record and records with no
\* rating, no sleep data or no activities included, each analytics function
\* returns a result (possibly a flagged degenerate one) and never raises.
C16_NeverRaises == outcome # NotCalled => outcome.kind = "returned"

(***************************************************************************)
(* SpecIngest: one refresh of get_daily_records where the database query   *)
(* answers with pages of which some have no date or no properties.         *)
(***************************************************************************)
MaxIngestPages == 3    \* pages in the answer of the query

IngestDates == {1, 2}

\* the pages with id i: without properties, without a date, and well-formed
IngestPages(i) ==
    { [id |-> i] }
    \cup { Page(i, d, k) : d \in IngestDates \cup {NoNumber}, k \in PageKinds }

InitIngest ==
    /\ \E n \in 0..MaxIngestPages :
         \E ps \in [1..n -> UNION { IngestPages(i) : i \in 1..n }] :
            /\ \A i \in 1..n : ps[i].id = i
            /\ upstream = ps
    /\ task_entries = <<>>
    /\ daily_records = <<>>
    /\ last_sync = NoNumber
    /\ now = 0
    /\ req = NoObject
    /\ result = <<>>
    /\ served = None
    /\ ParseIdle /\ ScoreIdle /\ AggIdle /\ AnaIdle /\ CallIdle /\ BotIdle

\* get_daily_records(force_refresh=True) when _query_database answers with upstream;
\* tasks is what is handed to _aggregate_daily, records what it returns
RefreshFromPages ==
    LET fetched == ParseAndFetch(upstream, upstream)
        built   == AggregateDaily(fetched)
    IN  /\ served = None
        /\ req' = [start_date |-> NoNumber, end_date |-> NoNumber, force_refresh |-> TRUE]
        /\ tasks' = fetched
        /\ records' = built
        /\ task_entries' = IF Len(fetched) > 0 THEN upsert_tasks(task_entries, fetched)
                           ELSE task_entries
        /\ daily_records' = IF Len(built) > 0 THEN upsert_daily_records(daily_records, built)
                            ELSE daily_records
        /\ last_sync' = IF Len(built) > 0 THEN now ELSE last_sync
        /\ result' = built
        /\ served' = "refresh"
        /\ UNCHANGED <<upstream, now, by_date, prev_records, calls, parseVars, scoreVars,
                       anaVars, callVars, botVars>>

NextIngest == RefreshFromPages

SpecIngest == InitIngest /\ [][NextIngest]_vars

\* the pages of the answer that have their properties and a date
WellFormed == SelectSeq(upstream, LAMBDA q : "date" \in DOMAIN q /\ q.date # NoNumber)

\* C17: a page without properties or without a date is dropped by the refresh:
\* the rows handed to _aggregate_daily and the rows cached are exactly those of
\* the well-formed pages, and the records returned and cached are those built
\* from the well-formed pages alone.
C17_MalformedDropped ==
    served = "refresh" =>
        /\ [i \in 1..Len(tasks) |-> tasks[i].id] = [i \in 1..Len(WellFormed) |-> WellFormed[i].id]
        /\ \A i \in 1..Len(tasks) : tasks[i].entry_date \in IngestDates
        /\ DOMAIN task_entries = {WellFormed[i].id : i \in 1..Len(WellFormed)}
        /\ records = AggregateDaily(ParseAndFetch(WellFormed, WellFormed))
        /\ result = records
        /\ DOMAIN daily_records = {WellFormed[i].date : i \in 1..Len(WellFormed)}

\* a refresh has run on an answer holding a page without properties, a page
\* without a date and a well-formed page
C17_Witness ==
    /\ served = "refresh"
    /\ \E i \in 1..Len(upstream) : "date" \notin DOMAIN upstream[i]
    /\ \E i \in 1..Len(upstream) : "date" \in DOMAIN upstream[i] /\ upstream[i].date = NoNumber
    /\ Len(tasks) = 1
    /\ Len(result) = 1

\* the rows of tasks dated d
RowsOn(d) == SelectSeq(tasks, LAMBDA t : t.entry_date = d)

\* C19: every DailyRecord _aggregate_daily returns has tasks_count >= 0 and
\* tasks_completed <= tasks_count, tasks_count being the number of rows of its
\* day and tasks_completed the number of those rows whose checkbox is true.
C19_TaskCounts ==
    calls >= 1 =>
        \A i \in 1..Len(records) :
            /\ records[i].tasks_count >= 0
            /\ records[i].tasks_completed <= records[i].tasks_count
            /\ records[i].tasks_count = Len(RowsOn(records[i].entry_date))
            /\ records[i].tasks_completed
                   = Len(SelectSeq(RowsOn(records[i].entry_date), LAMBDA t : t.checkbox))

\* a day with two rows, one ticked and one not, has been aggregated
C19_Witness ==
    /\ calls >= 1
    /\ \E i \in 1..Len(records) :
          records[i].tasks_count = 2 /\ records[i].tasks_completed = 1

(***************************************************************************)
(* SpecUpsert: a sequence of upsert_tasks and upsert_daily_records calls   *)
(* on an empty cache.  tasks and records hold every entry handed to the    *)
(* two functions so far, in the order it was written.                      *)
(***************************************************************************)
MaxUpserts == 2    \* calls made

UpsertTaskPool ==
    { TaskEntry(i, 1, [title |-> "Gym", tags |-> <<"GYM">>, checkbox |-> c, hours |-> NoNumber,
                       body_text |-> ""]) : i \in {1, 2}, c \in BOOLEAN }

UpsertRecordPool ==
    { [DefaultRecord(d) EXCEPT !.tasks_count = n, !.had_workout = (n = 2)] : d \in {1, 2}, n \in {1, 2} }

\* the lists of up to two elements of pool
ListsOf(pool) == {<<>>} \cup {<<x>> : x \in pool} \cup {<<x, y>> : x \in pool, y \in pool}

InitUpsert ==
    /\ tasks = <<>> /\ by_date = <<>> /\ records = <<>> /\ prev_records = <<>> /\ calls = 0
    /\ upstream = <<>> /\ task_entries = <<>> /\ daily_records = <<>>
    /\ last_sync = NoNumber /\ now = 0 /\ req = NoObject /\ result = <<>> /\ served = None
    /\ ParseIdle /\ ScoreIdle /\ AnaIdle /\ CallIdle /\ BotIdle

\* CacheService.upsert_tasks(ts)
UpsertTasks ==
    /\ calls < MaxUpserts
    /\ \E ts \in ListsOf(UpsertTaskPool) :
          /\ task_entries' = upsert_tasks(task_entries, ts)
          /\ tasks' = tasks \o ts
          /\ outcome' = [kind |-> "returned", fn |-> "upsert_tasks", value |-> Len(ts),
                         arg |-> ts, before |-> <<task_entries, daily_records>>]
    /\ prev_outcome' = outcome
    /\ calls' = calls + 1
    /\ UNCHANGED <<by_date, records, prev_records, upstream, daily_records, last_sync, now, req,
                   result, served, parseVars, scoreVars, anaVars, botVars>>

\* CacheService.upsert_daily_records(rs)
UpsertDailyRecords ==
    /\ calls < MaxUpserts
    /\ \E rs \in ListsOf(UpsertRecordPool) :
          /\ daily_records' = upsert_daily_records(daily_records, rs)
          /\ records' = records \o rs
          /\ outcome' = [kind |-> "returned", fn |-> "upsert_daily_records", value |-> Len(rs),
                         arg |-> rs, before |-> <<task_entries, daily_records>>]
    /\ prev_outcome' = outcome
    /\ calls' = calls + 1
    /\ UNCHANGED <<tasks, by_date, prev_records, upstream, task_entries, last_sync, now, req,
                   result, served, parseVars, scoreVars, anaVars, botVars>>

NextUpsert == UpsertTasks \/ UpsertDailyRecords

SpecUpsert == InitUpsert /\ [][NextUpsert]_vars

\* the last element of the non-empty sequence s
Last(s) == s[Len(s)]

\* C20: after any sequence of upserts the cache holds one task row for each id
\* ever written and one daily row for each entry_date ever written, and no other
\* row; each row is the one written last for its key; and upserting the list of
\* the previous call once more leaves both tables as they were.
C20_UpsertSemantics ==
    /\ DOMAIN task_entries = {tasks[i].id : i \in 1..Len(tasks)}
    /\ \A k \in DOMAIN task_entries :
          task_entries[k] = TaskRow(Last(SelectSeq(tasks, LAMBDA t : t.id = k)))
    /\ DOMAIN daily_records = {records[i].entry_date : i \in 1..Len(records)}
    /\ \A d \in DOMAIN daily_records :
          daily_records[d] = DailyRow(Last(SelectSeq(records, LAMBDA r : r.entry_date = d)))
    /\ (calls >= 2 /\ outcome.fn = prev_outcome.fn /\ outcome.arg = prev_outcome.arg)
          => <<task_entries, daily_records>> = outcome.before

\* a list of two entries has been upserted twice in a row, after which one key
\* holds a value that replaced an earlier one
C20_Witness ==
    /\ calls >= 2
    /\ outcome.fn = prev_outcome.fn
    /\ outcome.arg = prev_outcome.arg
    /\ Len(outcome.arg) = 2
    /\ \/ \E i, j \in 1..Len(tasks) : i < j /\ tasks[i].id = tasks[j].id /\ tasks[i] # tasks[j]
       \/ \E i, j \in 1..Len(records) :
             i < j /\ records[i].entry_date = records[j].entry_date /\ records[i] # records[j]

\* the titles _aggregate_daily takes a row as the day's summary row for
SummaryTitles == WeeklyTitles \cup {"MARK"}

\* the rows of day d whose title is a summary title
SummaryRowsOn(d) == SelectSeq(RowsOn(d), LAMBDA t : Strip(Upper(t.title)) \in SummaryTitles)

\* C21: of several summary rows of one day the last in input order is the one
\* used: rating, testik, sleep and journal_text come from its body text, and are
\* the empty defaults when its body is empty (or the day has no summary row).
C21_LastSummaryRowWins ==
    calls >= 1 =>
        \A i \in 1..Len(records) :
            LET marks == SummaryRowsOn(records[i].entry_date)
                r     == records[i]
            IN  IF Len(marks) > 0 /\ Last(marks).body_text # ""
                THEN /\ r.journal_text = Last(marks).body_text
                     /\ r.rating = parse_day_rating(Last(marks).body_text)
                     /\ r.testik = parse_testik(Last(marks).body_text)
                     /\ r.sleep = parse_sleep_info(Last(marks).body_text)
                ELSE /\ r.journal_text = ""
                     /\ r.rating = None
                     /\ r.testik = None
                     /\ r.sleep = NoSleep

\* a day with two summary rows of different bodies, the first not empty, has
\* been aggregated
C21_Witness ==
    /\ calls >= 1
    /\ \E i \in 1..Len(records) :
          LET marks == SummaryRowsOn(records[i].entry_date)
          IN  /\ Len(marks) = 2
              /\ marks[1].body_text # ""
              /\ marks[1].body_text # marks[2].body_text

\* C22: a record's activities hold each tag at most once under case-insensitive
\* comparison: no two entries are equal after upper-casing and trimming.
C22_ActivitiesUnique ==
    calls >= 1 =>
        \A i \in 1..Len(records) :
            \A j, k \in 1..Len(records[i].activities) :
                j < k => Strip(Upper(records[i].activities[j]))
                             # Strip(Upper(records[i].activities[k]))

\* some row of rows has a title or a tag in the keyword set
AnyRowMatches(rows, keywords) ==
    \E j \in 1..Len(rows) :
        \/ Strip(Upper(rows[j].title)) \in keywords
        \/ \E k \in 1..Len(rows[j].tags) : Strip(Upper(rows[j].tags[k])) \in keywords

\* C23: each of the four activity flags of a record is true exactly when some
\* row of the day has a title or a tag in the flag's keyword set, wherever the
\* row stands among the day's rows.
C23_FlagsAreOr ==
    calls >= 1 =>
        \A i \in 1..Len(records) :
            LET rows == RowsOn(records[i].entry_date)
            IN  /\ records[i].had_workout = AnyRowMatches(rows, _WORKOUT_TAGS)
                /\ records[i].had_university = AnyRowMatches(rows, _UNI_TAGS)
                /\ records[i].had_coding = AnyRowMatches(rows, _CODING_TAGS)
                /\ records[i].had_kate = AnyRowMatches(rows, _KATE_TAGS)

\* a day whose first row matches a flag that its second row does not match has
\* been aggregated with the flag set
C23_Witness ==
    /\ calls >= 1
    /\ \E i \in 1..Len(records) :
          LET rows == RowsOn(records[i].entry_date)
          IN  /\ Len(rows) = 2
              /\ \/ /\ AnyRowMatches(<<rows[1]>>, _WORKOUT_TAGS)
                    /\ ~AnyRowMatches(<<rows[2]>>, _WORKOUT_TAGS)
                    /\ records[i].had_workout
                 \/ /\ AnyRowMatches(<<rows[1]>>, _CODING_TAGS)
                    /\ ~AnyRowMatches(<<rows[2]>>, _CODING_TAGS)
                    /\ records[i].had_coding

\* C26: a record has is_weekly_summary exactly when some row of its day has a
\* period-summary title, also when a plain MARK row follows that row.
C26_WeeklyFlag ==
    calls >= 1 =>
        \A i \in 1..Len(records) :
            records[i].is_weekly_summary
                = \E j \in 1..Len(RowsOn(records[i].entry_date)) :
                      Strip(Upper(RowsOn(records[i].entry_date)[j].title)) \in WeeklyTitles

\* a day with a period-summary row followed by a plain MARK row has been aggregated
C26_Witness ==
    /\ calls >= 1
    /\ \E i \in 1..Len(records) :
          LET rows == RowsOn(records[i].entry_date)
          IN  /\ Len(rows) = 2
              /\ Strip(Upper(rows[1].title)) \in WeeklyTitles
              /\ Strip(Upper(rows[2].title)) = "MARK"
              /\ records[i].is_weekly_summary

(***************************************************************************)
(* SpecBurnoutWindow: predict_burnout on lists longer than the 7 records   *)
(* it scores.                                                              *)
(***************************************************************************)
MaxWindowDays == 9    \* the lists hold up to MaxWindowDays records

WindowProfiles == BurnoutProfiles \cup {DefaultRecord(0)}

\* n days, the oldest k with one profile and the later ones with another
WindowLists ==
    { [i \in 1..n |-> [(IF i <= k THEN a ELSE b) EXCEPT !.entry_date = i]]
        : <<n, k, a, b>> \in { q \in (0..MaxWindowDays) \X (0..MaxWindowDays)
                                       \X WindowProfiles \X WindowProfiles : q[2] <= q[1] } }

InitBurnoutWindow ==
    /\ recs \in WindowLists
    /\ streaks = NotCalled /\ kate = NotCalled /\ formula_out = NotCalled
    /\ CallIdle /\ BotIdle
    /\ ParseIdle /\ ScoreIdle /\ AggIdle /\ SvcIdle

NextBurnoutWindow == PredictBurnout

SpecBurnoutWindow == InitBurnoutWindow /\ [][NextBurnoutWindow]_vars

\* the 7 most recent of the records of recs that are not period summaries
Window7 == Take(SortByDateDesc(NonWeekly(recs)), 7)

\* the length of the run of MINUS / MINUS_KATE days Window7 starts with
MinusRun ==
    CHOOSE k \in 0..Len(Window7) :
        /\ \A j \in 1..k : Window7[j].testik \in {"MINUS", "MINUS_KATE"}
        /\ k = Len(Window7) \/ Window7[k + 1].testik \notin {"MINUS", "MINUS_KATE"}

\* the points and the name of each factor the claim lists, 0 and "" when its
\* condition does not hold on Window7
ExpectedFactors ==
    LET w      == Window7
        n      == Len(w)
        slept  == {j \in 1..n : w[j].sleep.sleep_hours \notin {NoNumber, 0}}
        sleep  == SumSeq([j \in 1..n |-> IF j \in slept THEN w[j].sleep.sleep_hours ELSE 0])
        rated  == {j \in 1..n : w[j].rating # None}
        rating == SumSeq([j \in 1..n |-> IF j \in rated THEN RatingScore(w[j].rating) ELSE 0])
        hours  == SumSeq([j \in 1..n |-> w[j].total_hours])
        idle   == Cardinality({j \in 1..n : ~w[j].had_workout})
        count  == SumSeq([j \in 1..n |-> w[j].tasks_count])
    IN  << IF MinusRun >= 3 THEN <<30, "minus streak >= 3">>
           ELSE IF MinusRun = 2 THEN <<15, "minus streak >= 2">> ELSE <<0, "">>,
           IF slept # {} /\ sleep < 600 * Cardinality(slept) THEN <<25, "avg sleep < 6">>
           ELSE IF slept # {} /\ sleep < 700 * Cardinality(slept) THEN <<10, "avg sleep < 7">>
           ELSE <<0, "">>,
           IF Cardinality(rated) >= 3 /\ rating < 3 * Cardinality(rated)
           THEN <<20, "avg rating < 3">> ELSE <<0, "">>,
           IF hours > 100 * n THEN <<15, "avg hours > 10">> ELSE <<0, "">>,
           IF idle >= 5 THEN <<10, "no workout >= 5">> ELSE <<0, "">>,
           IF count < 2 * n THEN <<10, "avg tasks < 2">> ELSE <<0, "">> >>

\* C24: with at least 3 records that are not summaries, risk_score is
\* min(100, sum of the points of the factors triggered on the 7 most recent
\* records) and factors lists exactly the triggered ones, in the order of the
\* tests, or the one placeholder when none is triggered.
C24_RiskIsSumOfFactors ==
    (outcome # NotCalled /\ Len(NonWeekly(recs)) >= 3) =>
        LET triggered == SelectSeq(ExpectedFactors, LAMBDA f : f[1] > 0)
        IN  /\ outcome.value.risk_score
                   = Min(100, SumSeq([k \in 1..6 |-> ExpectedFactors[k][1]]))
            /\ outcome.value.factors
                   = IF Len(triggered) > 0 THEN [k \in 1..Len(triggered) |-> triggered[k][2]]
                     ELSE <<"no critical factors">>

\* a list of more than 7 days has been scored whose 7 most recent days trigger
\* no factor while its older days would trigger some
C24_Witness ==
    /\ outcome # NotCalled
    /\ Len(NonWeekly(recs)) > 7
    /\ outcome.value.factors = <<"no critical factors">>
    /\ \E i \in 1..Len(recs) : recs[i].testik = "MINUS" /\ ~recs[i].is_weekly_summary

(***************************************************************************)
(* SpecMonth: analyze_month on the records of a month, given latest first  *)
(* as get_daily_for_month returns them, or earliest first.                 *)
(***************************************************************************)
MaxMonthDays == 4    \* the records' dates are among the days 1..MaxMonthDays

MonthProfiles ==
    { [DefaultRecord(0) EXCEPT !.rating = "good", !.total_hours = 60, !.had_workout = TRUE,
          !.activities = <<"GYM", "CODING">>, !.tasks_count = 3],
      [DefaultRecord(0) EXCEPT !.rating = "bad", !.activities = <<"CODING">>, !.tasks_count = 1],
      [DefaultRecord(0) EXCEPT !.rating = "perfect", !.activities = <<"MARK'S WEEK">>,
          !.tasks_count = 1, !.is_weekly_summary = TRUE] }

Reversed(s) == [i \in 1..Len(s) |-> s[Len(s) + 1 - i]]

InitMonth ==
    /\ \E l \in RecordLists(MonthProfiles, MaxMonthDays) : recs \in {l, Reversed(l)}
    /\ streaks = NotCalled /\ kate = NotCalled /\ formula_out = NotCalled
    /\ CallIdle /\ BotIdle
    /\ ParseIdle /\ ScoreIdle /\ AggIdle /\ SvcIdle

\* outcome = await AIAnalyzer.analyze_month(recs, label)
AnalyzeMonth ==
    /\ outcome = NotCalled
    /\ outcome' = Returned("analyze_month", analyze_month(recs))
    /\ UNCHANGED <<prev_outcome, anaVars, parseVars, scoreVars, aggVars, svcVars, botVars>>

NextMonth == AnalyzeMonth

SpecMonth == InitMonth /\ [][NextMonth]_vars

\* C25: best_day is a record that is not a summary with the largest productivity
\* score and worst_day one with the smallest, and of several records with that
\* score it is the one of the earliest date, in whatever order the list is given.
C25_BestWorstEarliest ==
    (outcome # NotCalled /\ Len(NonWeekly(recs)) > 0) =>
        LET days  == NonWeekly(recs)
            best  == outcome.value.best_day
            worst == outcome.value.worst_day
        IN  /\ \E i \in 1..Len(days) : days[i].entry_date = best.entry_date
            /\ \E i \in 1..Len(days) : days[i].entry_date = worst.entry_date
            /\ \A i \in 1..Len(days) :
                  /\ productivity_score(days[i]) <= best.productivity_score
                  /\ productivity_score(days[i]) >= worst.productivity_score
                  /\ productivity_score(days[i]) = best.productivity_score
                        => best.entry_date <= days[i].entry_date
                  /\ productivity_score(days[i]) = worst.productivity_score
                        => worst.entry_date <= days[i].entry_date

(***************************************************************************)
(* SpecFetch: one refresh of get_daily_records over pages whose titles may *)
(* carry blanks around the name, as a title typed by hand can.             *)
(***************************************************************************)
MaxFetchPages == 2    \* pages in the answer of the query

FetchKinds ==
    { [title |-> "MARK", tags |-> <<>>, checkbox |-> FALSE, number |-> NoNumber,
       blocks |-> "MARK: good"],
      [title |-> "Mark ", tags |-> <<>>, checkbox |-> FALSE, number |-> NoNumber,
       blocks |-> "MARK: bad"],
      [title |-> " Mark's week", tags |-> <<>>, checkbox |-> FALSE, number |-> NoNumber,
       blocks |-> "PLUS TESTIK"],
      [title |-> "Gym", tags |-> <<"GYM">>, checkbox |-> TRUE, number |-> 150, blocks |-> ""] }

InitFetch ==
    /\ \E n \in 0..MaxFetchPages :
         \E ds \in [1..n -> IngestDates], ks \in [1..n -> FetchKinds] :
            upstream = [i \in 1..n |-> Page(i, ds[i], ks[i])]
    /\ task_entries = <<>>
    /\ daily_records = <<>>
    /\ last_sync = NoNumber
    /\ now = 0
    /\ req = NoObject
    /\ result = <<>>
    /\ served = None
    /\ ParseIdle /\ ScoreIdle /\ AggIdle /\ AnaIdle /\ CallIdle /\ BotIdle

NextFetch == RefreshFromPages

SpecFetch == InitFetch /\ [][NextFetch]_vars

\* C27: every row _aggregate_daily takes as a summary row (title MARK, MARK'S
\* WEEK or MARK'S WEAK after upper-casing and trimming) had its page body
\* fetched in step 2: it reaches aggregation with the text of its page.
C27_SummaryBodyFetched ==
    served = "refresh" =>
        \A i \in 1..Len(tasks) :
            Strip(Upper(tasks[i].title)) \in SummaryTitles
                => tasks[i].body_text = upstream[tasks[i].id].blocks


(***************************************************************************)
(* _check_rate_limit (main.py).  _rate_limits is a defaultdict(list): a    *)
(* user without an entry reads as the empty list, and reading creates the  *)
(* entry.  Times are whole seconds.                                        *)
(***************************************************************************)
RateWindow == 60

rate_list(d, user_id) == IF user_id \in DOMAIN d THEN d[user_id] ELSE <<>>

\* the comprehension with the bound included: a call exactly 60 s old stays
rate_recent_closed(ts, t_now) == SelectSeq(ts, LAMBDA t : t_now - t <= RateWindow)

\* [t for t in _rate_limits[user_id] if now - t < 60]
rate_recent(ts, t_now) == SelectSeq(ts, LAMBDA t : t_now - t < RateWindow)

\* the answer of _check_rate_limit and the list it leaves for the user
_check_rate_limit(d, user_id, limit, t_now) ==
    LET kept == rate_recent(rate_list(d, user_id), t_now)
    IN  IF Len(kept) >= limit
        THEN [answer |-> FALSE, list |-> kept]
        ELSE [answer |-> TRUE, list |-> Append(kept, t_now)]

(***************************************************************************)
(* SpecRateLimit: calls of _check_rate_limit by two users at non-          *)
(* decreasing times.  The limit is the configured rate_limit_per_minute,   *)
(* the same for every call of a run.  checks logs every call.              *)
(***************************************************************************)
MaxChecks  == 4
RateUsers  == {101, 102}
RateLimits == {1, 2}
RateSteps  == {0, 1, RateWindow - 1, RateWindow}

InitRateLimit ==
    /\ RateIdle /\ PollIdle /\ BackgroundIdle
    /\ ParseIdle /\ ScoreIdle /\ AggIdle /\ AnaIdle /\ SvcIdle /\ CallIdle

CheckRateLimit ==
    /\ Len(checks) < MaxChecks
    /\ \E user_id \in RateUsers, dt \in RateSteps,
          limit \in IF checks = <<>> THEN RateLimits ELSE {checks[1].limit} :
         LET c == _check_rate_limit(_rate_limits, user_id, limit, clock + dt)
         IN  /\ clock' = clock + dt
             /\ _rate_limits' = [u \in DOMAIN _rate_limits \cup {user_id} |->
                                    IF u = user_id THEN c.list ELSE _rate_limits[u]]
             /\ checks' = Append(checks, [user |-> user_id, t |-> clock + dt,
                                          limit |-> limit, answer |-> c.answer])
    /\ UNCHANGED <<offset, updates, poll_pc, arrived, handed, returned, failed,
                   markers, bg_clock, attempts,
                   parseVars, scoreVars, aggVars, anaVars, svcVars, callVars>>

NextRateLimit == CheckRateLimit

SpecRateLimit == InitRateLimit /\ [][NextRateLimit]_vars

\* the calls of the user of call i before call i that were answered True less
\* than 60 s before it
AdmittedBefore(i) ==
    {j \in 1..(i - 1) : /\ checks[j].user = checks[i].user
                        /\ checks[j].answer
                        /\ checks[i].t - checks[j].t < RateWindow}

\* the times of the calls of a user answered True, in order
AdmittedTimes(u) ==
    LET mine == SelectSeq(checks, LAMBDA c : c.user = u /\ c.answer)
    IN  [k \in 1..Len(mine) |-> mine[k].t]

LastCallOf(u) ==
    CHOOSE i \in 1..Len(checks) :
        checks[i].user = u /\ \A j \in (i + 1)..Len(checks) : checks[j].user # u

\* C28: a call is answered True exactly when fewer than limit calls of the same
\* user were answered True in the 60 s that end with it, so the calls answered
\* True in any window of 60 s (one end excluded; it is enough to look at the
\* windows that start at a call) never exceed limit; the list
\* kept for a user holds exactly that user's calls answered True less than 60 s
\* before the user's last call: calls answered False and calls of other users
\* leave no trace in it.
C28_RateLimit ==
    /\ \A i \in 1..Len(checks) :
          checks[i].answer <=> Cardinality(AdmittedBefore(i)) < checks[i].limit
    /\ \A i \in 1..Len(checks) :
          Cardinality({j \in 1..Len(checks) :
                          /\ checks[j].user = checks[i].user /\ checks[j].answer
                          /\ checks[i].t <= checks[j].t
                          /\ checks[j].t < checks[i].t + RateWindow})
              <= checks[i].limit
    /\ DOMAIN _rate_limits = {checks[i].user : i \in 1..Len(checks)}
    /\ \A u \in DOMAIN _rate_limits :
          _rate_limits[u] = rate_recent(AdmittedTimes(u), checks[LastCallOf(u)].t)

\* a user is refused at the limit, another user is let through at the same
\* second, and the refused user is let through again once the window has passed
C28_Witness ==
    /\ Len(checks) = 4
    /\ checks[1].user = 101 /\ checks[1].answer /\ checks[1].limit = 1
    /\ checks[2].user = 101 /\ ~checks[2].answer
    /\ checks[3].user = 102 /\ checks[3].answer /\ checks[3].t = checks[2].t
    /\ checks[4].user = 101 /\ checks[4].answer /\ checks[4].t = checks[1].t + RateWindow


(***************************************************************************)
(* _run_polling (main.py).  Telegram numbers the updates 1, 2, ... and     *)
(* get_updates(offset) returns, in order, updates not older than offset    *)
(* that it has received; an empty answer is the long poll timing out.      *)
(* poll_pc is "get_updates" at the top of the while loop, "for" inside the *)
(* for loop and "stopped" after the break.                                 *)
(***************************************************************************)
MaxUpdates == 4

UpdateIds == 1..MaxUpdates

\* the assignment placed after the await: the offset moves only when
\* process_update came back
offset_after_processing(off, update_id, how) == IF how = "ok" THEN update_id + 1 ELSE off

\* offset = update.update_id + 1, before process_update is awaited
offset_after(off, update_id, how) == update_id + 1

\* the updates get_updates(offset) may hand out
Pending(off) == {u \in 1..arrived : u >= off}

InitPolling ==
    /\ offset = 0
    /\ updates = <<>>
    /\ poll_pc = "get_updates"
    /\ arrived = 0
    /\ handed = [u \in UpdateIds |-> 0]
    /\ returned = [u \in UpdateIds |-> 0]
    /\ failed = {}
    /\ RateIdle /\ BackgroundIdle
    /\ ParseIdle /\ ScoreIdle /\ AggIdle /\ AnaIdle /\ SvcIdle /\ CallIdle

pollOthers == <<_rate_limits, clock, checks, markers, bg_clock, attempts,
                parseVars, scoreVars, aggVars, anaVars, svcVars, callVars>>

\* a user sends a message: Telegram receives one more update
Arrive ==
    /\ arrived < MaxUpdates
    /\ arrived' = arrived + 1
    /\ UNCHANGED <<offset, updates, poll_pc, handed, returned, failed, pollOthers>>

\* updates = await bot_app.bot.get_updates(offset=offset, timeout=30): the
\* first n pending updates, n between 1 and all of them
GetUpdates ==
    /\ poll_pc = "get_updates"
    /\ Pending(offset) # {}
    /\ \E n \in 1..Cardinality(Pending(offset)) :
         LET first == IF offset >= 1 THEN offset ELSE 1
             batch == [i \in 1..n |-> first + i - 1]
         IN  /\ updates' = batch
             /\ returned' = [u \in UpdateIds |->
                                IF u >= first /\ u < first + n THEN returned[u] + 1
                                                               ELSE returned[u]]
    /\ poll_pc' = "for"
    /\ UNCHANGED <<offset, arrived, handed, failed, pollOthers>>

\* one pass of the for loop: the offset is set, then process_update is awaited
\* and comes back, raises, or the task is cancelled while it waits
ProcessUpdate ==
    /\ poll_pc = "for"
    /\ updates # <<>>
    /\ \E how \in {"ok", "raises", "cancelled"} :
         LET update_id == Head(updates)
         IN  /\ offset' = offset_after(offset, update_id, how)
             /\ handed' = [handed EXCEPT ![update_id] = @ + 1]
             /\ failed' = IF how = "raises" THEN failed \cup {update_id} ELSE failed
             /\ updates' = IF how = "ok" THEN Tail(updates) ELSE <<>>
             /\ poll_pc' = IF how = "cancelled" THEN "stopped"
                           ELSE IF how = "raises" \/ Tail(updates) = <<>> THEN "get_updates"
                           ELSE "for"
    /\ UNCHANGED <<arrived, returned, pollOthers>>

\* asyncio.CancelledError while get_updates is awaited: break
CancelPolling ==
    /\ poll_pc = "get_updates"
    /\ poll_pc' = "stopped"
    /\ UNCHANGED <<offset, updates, arrived, handed, returned, failed, pollOthers>>

NextPolling == Arrive \/ GetUpdates \/ ProcessUpdate \/ CancelPolling

SpecPolling == InitPolling /\ [][NextPolling]_vars

\* the updates handed over are exactly those below the offset, each once; what
\* was returned and is not below the offset was skipped: get_updates returns
\* it again
HandedBelowOffset ==
    \A u \in UpdateIds :
        /\ handed[u] <= 1
        /\ handed[u] = 1 <=> u < offset
        /\ u \in failed => handed[u] = 1
        /\ (returned[u] >= 1 /\ u >= offset) => (handed[u] = 0 /\ u \in Pending(offset))
        /\ (returned[u] >= 2 /\ handed[u] = 1) => \E v \in failed : v < u

\* C29: no update is handed to process_update twice: the offset is past an
\* update as soon as it is handed over, so get_updates never returns an update
\* again once it was handed over, whether its processing raised or not, while
\* the updates of the batch that were skipped after a raise are not older than
\* the offset, were handed over zero times and are returned by the next
\* get_updates.
C29_AtMostOnce ==
    /\ []HandedBelowOffset
    /\ [][\A u \in UpdateIds : handed[u] >= 1 => returned'[u] = returned[u]]_vars

\* processing of update 1 raised; update 2 came in the same batch, was
\* returned a second time and processed then
C29_Witness ==
    /\ 1 \in failed
    /\ returned[1] = 1
    /\ returned[2] = 2
    /\ handed[2] = 1
    /\ 2 \notin failed


(***************************************************************************)
(* _background_loop (main.py).  bg_clock is the UTC time the next cycle    *)
(* reads, in minutes since 2024-06-01 00:00, a Saturday.  markers holds    *)
(* the five module-level strings.  attempts counts, for each message and   *)
(* each key (date, or date and 4-hour bucket), the attempts started, and   *)
(* keeps how the last attempt of each message ended.                       *)
(***************************************************************************)
MaxBgDays == 2

MinutesPerDay == 1440
CycleMinutes  == 15
BgSteps  == {CycleMinutes, CycleMinutes + 5}   \* the sleep plus what the body took
BgStarts == {0, 370}
BgKinds  == {"briefing", "midday", "evening", "alert", "digest"}

bg_day(t)     == t \div MinutesPerDay
bg_hour(t)    == (t % MinutesPerDay) \div 60
bg_minute(t)  == t % 60
bg_weekday(t) == (5 + bg_day(t)) % 7             \* datetime.weekday(): Monday is 0

\* now.strftime("%Y-%m-%d")
today_str(t) ==
    "2024-06-" \o (IF bg_day(t) + 1 < 10 THEN "0" ELSE "") \o IntStr(bg_day(t) + 1)

\* f"{today_str}-{now.hour // 4}"
alert_key(t) == today_str(t) \o "-" \o IntStr(bg_hour(t) \div 4)

\* the test that opens each section, without the comparison with the marker
bg_due(kind, t) ==
    CASE kind = "briefing" -> 6 <= bg_hour(t) /\ bg_hour(t) <= 8
      [] kind = "midday"   -> 11 <= bg_hour(t) /\ bg_hour(t) <= 12
      [] kind = "evening"  -> 19 <= bg_hour(t) /\ bg_hour(t) <= 21
      [] kind = "alert"    -> bg_minute(t) < 20
      [] kind = "digest"   -> bg_weekday(t) = 6 /\ 17 <= bg_hour(t) /\ bg_hour(t) <= 19

bg_key(kind, t) == IF kind = "alert" THEN alert_key(t) ELSE today_str(t)

\* the marker written after the attempt, and only when it went through
marker_after_attempt(old, key, ok) == IF ok THEN key ELSE old

\* _last_..._date = today_str, the first statement under the if
marker_before_attempt(old, key, ok) == key

AttemptCount(f, key) == IF key \in DOMAIN f THEN f[key] ELSE 0

\* one section of the loop body: st is the pair of markers and attempts
bg_section(st, kind, t, oks) ==
    LET key == bg_key(kind, t)
        f   == st.attempts.count[kind]
        ok  == oks[kind]
    IN  IF bg_due(kind, t) /\ st.markers[kind] # key
        THEN [markers  |-> [st.markers EXCEPT ![kind] = marker_before_attempt(@, key, ok)],
              attempts |-> [count |-> [st.attempts.count EXCEPT ![kind] =
                                          [k \in DOMAIN f \cup {key} |->
                                              IF k = key THEN AttemptCount(f, key) + 1
                                                         ELSE f[k]]],
                            last  |-> [st.attempts.last EXCEPT ![kind] =
                                          IF ok THEN "sent" ELSE "failed"]]]
        ELSE st

\* the body of the while loop: the five sections in the order of the code
bg_body(st, t, oks) ==
    bg_section(bg_section(bg_section(bg_section(bg_section(st,
        "briefing", t, oks), "midday", t, oks), "evening", t, oks), "alert", t, oks),
        "digest", t, oks)

InitBackground ==
    /\ markers = NoMarkers
    /\ bg_clock \in BgStarts
    /\ attempts = [count |-> [kind \in BgKinds |-> <<>>],
                   last  |-> [kind \in BgKinds |-> "none"]]
    /\ RateIdle /\ PollIdle
    /\ ParseIdle /\ ScoreIdle /\ AggIdle /\ AnaIdle /\ SvcIdle /\ CallIdle

\* one cycle: now is read, the sections run, each attempt that is started
\* going through or raising, and the loop sleeps 15 minutes
BackgroundCycle ==
    /\ \E step \in BgSteps,
          oks \in [{kind \in BgKinds : bg_due(kind, bg_clock)} -> BOOLEAN] :
         LET st == bg_body([markers |-> markers, attempts |-> attempts], bg_clock, oks)
         IN  /\ bg_clock + step < MaxBgDays * MinutesPerDay
             /\ bg_clock' = bg_clock + step
             /\ markers' = st.markers
             /\ attempts' = st.attempts
    /\ UNCHANGED <<_rate_limits, clock, checks, offset, updates, poll_pc, arrived, handed,
                   returned, failed,
                   parseVars, scoreVars, aggVars, anaVars, svcVars, callVars>>

NextBackground == BackgroundCycle

SpecBackground == InitBackground /\ [][NextBackground]_vars

\* C30: for the morning briefing, the midday check, the evening review and the
\* weekly digest no date has more than one attempt, and for the alerts no
\* 4-hour bucket of a date has more than one; the marker of a message is the
\* key of its last attempt whether that attempt went through or raised, so a
\* failed attempt is not repeated while its date (or bucket) lasts.
C30_OncePerDate ==
    \A kind \in BgKinds :
        /\ \A key \in DOMAIN attempts.count[kind] : attempts.count[kind][key] <= 1
        /\ attempts.last[kind] # "none" => markers[kind] \in DOMAIN attempts.count[kind]
        /\ attempts.last[kind] = "none" => attempts.count[kind] = <<>> /\ markers[kind] = ""

\* Sunday 2024-06-02 after 20:00: the morning briefing and the weekly digest of
\* that day were each attempted once and raised, the alert of the bucket
\* 04:00-08:00 was attempted once, and the later cycles inside their windows
\* did not repeat them
C30_Witness ==
    /\ bg_day(bg_clock) = 1
    /\ bg_hour(bg_clock) >= 20
    /\ attempts.last["digest"] = "failed"
    /\ attempts.last["briefing"] = "failed"
    /\ AttemptCount(attempts.count["digest"], "2024-06-02") = 1
    /\ AttemptCount(attempts.count["briefing"], "2024-06-02") = 1
    /\ AttemptCount(attempts.count["briefing"], "2024-06-01") = 1
    /\ AttemptCount(attempts.count["alert"], "2024-06-02-1") = 1

=============================================================================
